---- MODULE Spec2Model ----
(***************************************************************************)
(* Open Scan: the application state of src/App.tsx (a React component),    *)
(* its image pipeline (src/services/imageUtils.ts), its cloud services    *)
(* (src/services/geminiService.ts) and its service worker, as a state      *)
(* machine.                                                                *)
(*                                                                         *)
(* Every event handler is one action.  An async handler is two actions:    *)
(* the part up to its first await, which records the handler's closure     *)
(* (the currentDoc, editorPageIndex, ... of the render it was created in)  *)
(* in the bag `inflight`, and the part after the await, which runs when    *)
(* the awaited promise settles and works on the recorded closure.          *)
(* The effects React runs after a render (persistence, canvas set-up) are  *)
(* part of the action that caused the render.                              *)
(***************************************************************************)
EXTENDS Integers, Sequences, FiniteSets, Bags, TLC

\* ---------------------------------------------------------------- bounds
MaxId       == 2   \* generateId() draws from 1..MaxId (collisions possible)
MaxOps      == 3   \* frames captured plus editor operations, language
                   \* choices, service calls and exports started in one run
                   \* of the whole application (longer runs: see budget)
MaxInflight == 2   \* async operations pending at the same time
MaxLayer    == 2   \* distinct contents of the highlight canvas
MaxPages    == 3   \* pages of a document handed to exportToZIP

\* ------------------------------------------------------------ data model
DASHBOARD == "DASHBOARD"
CAMERA    == "CAMERA"
EDITOR    == "EDITOR"
DETAILS   == "DETAILS"
AppView   == {DASHBOARD, CAMERA, EDITOR, DETAILS}

ORIGINAL      == "ORIGINAL"
GRAYSCALE     == "GRAYSCALE"
MAGIC_ENHANCE == "MAGIC_ENHANCE"
BW            == "BW"
FilterType    == {ORIGINAL, GRAYSCALE, MAGIC_ENHANCE, BW}

\* Languages offered by the translate dialog (two of the twelve).
LANGUAGES == {"Spanish", "French"}

\* currentDoc === null
NullDoc == [null |-> TRUE]
\* DocumentData.translation absent (undefined)
NoTranslation == [undefined |-> TRUE]
\* ScannedPage.highlightsLayer absent (undefined); a layer is a number >= 1:
\* 1 is the untouched transparent canvas, k + 1 the canvas after k strokes.
NoLayer == 0

\* canvas.toDataURL('image/jpeg', 0.9) of video frame n; frame 0 is the
\* 0 x 0 canvas of a video without data, whose data URL is "data:,".
FrameDataUrl(n) == [frame |-> n, enc |-> IF n = 0 THEN "none" ELSE "jpeg90"]

\* Does an <img> with this src fire onload (TRUE) or onerror (FALSE)?
Decodes(dataUrl) == dataUrl.enc # "none"

\* ------------------------------------------------------- image pipeline
\* The pixels processImage hands to toDataURL: the source drawn rotated,
\* the tone transform of the filter, then the highlight layer drawn over
\* it when it is present and decodes (hlImg.onerror: base image alone).
processImage(dataUrl, filter, rotation, highlightsLayer) ==
  [ src      |-> dataUrl,
    rotation |-> rotation,
    filter   |-> filter,
    overlay  |-> highlightsLayer,
    enc      |-> "jpeg85" ]

\* generateId(): Math.random() in base 36; nothing makes it fresh.
generateId == 1..MaxId

\* The ids generateId gives to pages.  A page id is read nowhere but as a
\* React key, so one value stands for all of them.
PageIds == {1}

\* ---------------------------------------------------------- persistence
PageKeys == {"id", "originalDataUrl", "processedDataUrl", "filter", "rotation"}
DocKeys  == {"id", "title", "createdAt", "category", "pages", "aiSummary"}

\* JSON.stringify leaves out the keys whose value is undefined.
StringifyPage(p) ==
  [k \in (IF p.highlightsLayer = NoLayer THEN PageKeys
          ELSE PageKeys \cup {"highlightsLayer"}) |-> p[k]]

StringifyDoc(d) ==
  [k \in (IF d.translation = NoTranslation THEN DocKeys
          ELSE DocKeys \cup {"translation"}) |->
     IF k = "pages" THEN [i \in 1..Len(d.pages) |-> StringifyPage(d.pages[i])]
     ELSE d[k]]

JSONstringify(docs) == [i \in 1..Len(docs) |-> StringifyDoc(docs[i])]

\* JSON.parse: a key that is not in the text reads as undefined.
ParsePage(s) ==
  [ id               |-> s.id,
    originalDataUrl  |-> s.originalDataUrl,
    processedDataUrl |-> s.processedDataUrl,
    highlightsLayer  |-> IF "highlightsLayer" \in DOMAIN s
                         THEN s.highlightsLayer ELSE NoLayer,
    filter           |-> s.filter,
    rotation         |-> s.rotation ]

ParseDoc(s) ==
  [ id          |-> s.id,
    title       |-> s.title,
    createdAt   |-> s.createdAt,
    category    |-> s.category,
    pages       |-> [i \in 1..Len(s.pages) |-> ParsePage(s.pages[i])],
    aiSummary   |-> s.aiSummary,
    translation |-> IF "translation" \in DOMAIN s
                    THEN s.translation ELSE NoTranslation ]

JSONparse(text) == [i \in 1..Len(text) |-> ParseDoc(text[i])]

\* ------------------------------------------------------------- services
\* What analyzeDocument resolves to when the API key is set:
\*   "ok"    a well-formed answer, "empty" an answer without the fields,
\*   "error" generateContent or JSON.parse threw (the catch block).
AnalysisOutcomes == {"ok", "empty", "error"}

analyzeDocument(outcome) ==
  CASE outcome = "ok"    -> [title |-> "AI title", category |-> "AI category",
                             summary |-> "AI summary"]
    [] outcome = "empty" -> [title |-> "Untitled Scan", category |-> "General",
                             summary |-> "No text detected."]
    [] outcome = "error" -> [title |-> "Scanned Document",
                             category |-> "Uncategorized",
                             summary |-> "AI Analysis failed or offline."]

\* What translateText resolves to when the API key is set.
TranslationOutcomes == {"ok", "empty", "error"}

translateText(outcome) ==
  CASE outcome = "ok"    -> "Translated text"
    [] outcome = "empty" -> "Translation empty."
    [] outcome = "error" -> "Translation failed. Please try again."

\* ------------------------------------------------------------------ state
VARIABLES
  view,                      \* useState<AppView>
  documents,                 \* useState<DocumentData[]>, the collection
  stored,                    \* localStorage['open_scan_docs']
  currentDoc,                \* useState<DocumentData | null>
  editorPageIndex,           \* 0-based
  isProcessing,
  isHighlighting,
  cleanImageForHighlighting,
  canvas,                    \* editorCanvasRef: 0 not mounted, else its layer
  showTranslateDialog,
  targetLang,
  sourceLang,
  showExportSheet,
  scanMode,
  batchPages,
  isSelectionMode,
  selectedIds,
  showDeleteConfirm,
  deleteTargetIds,
  cameraActive,
  videoReady,                \* the mounted <video> has a stream (videoWidth > 0)
  lostStreams,               \* a stream of getUserMedia has live tracks and
                             \* no mounted <video> holds it
  apiKey,                    \* process.env.API_KEY is set
  inflight,                  \* bag of pending async handlers (their closures)
  captures,                  \* frames captured so far; also the clock
  ops,                       \* editor operations, language choices, service
                             \* calls and exports started so far
  lastOp,                    \* the handler that ran last, and what it saw
  budget,                    \* how many frames and operations this run may use
  render,                    \* one call of processImage, step by step
  zip,                       \* one call of exportToZIP, step by step
  worker                     \* the service worker and its cache

\* The state of the component.
appVars == << view, documents, stored, currentDoc, editorPageIndex, isProcessing,
           isHighlighting, cleanImageForHighlighting, canvas,
           showTranslateDialog, targetLang, sourceLang, showExportSheet,
           scanMode, batchPages, isSelectionMode, selectedIds,
           showDeleteConfirm, deleteTargetIds, cameraActive, videoReady,
           lostStreams, apiKey, inflight, captures, ops, lastOp >>

vars == << appVars, budget, render, zip, worker >>

\* No call of processImage or exportToZIP is being followed step by step,
\* and the service worker is left out.
NoRender == [pc |-> "idle"]
NoZip    == [pc |-> "idle"]
NoWorker == [pc |-> "none"]

\* The component after its first render.
InitApp ==
  /\ view = DASHBOARD
  /\ stored = JSONstringify(<< >>)
  /\ documents = JSONparse(stored)
  /\ currentDoc = NullDoc
  /\ editorPageIndex = 0
  /\ isProcessing = FALSE
  /\ isHighlighting = FALSE
  /\ cleanImageForHighlighting = FrameDataUrl(0)
  /\ canvas = 0
  /\ showTranslateDialog = FALSE
  /\ targetLang = "Spanish"
  /\ sourceLang = "Auto"
  /\ showExportSheet = FALSE
  /\ scanMode = "SINGLE"
  /\ batchPages = << >>
  /\ isSelectionMode = FALSE
  /\ selectedIds = {}
  /\ showDeleteConfirm = FALSE
  /\ deleteTargetIds = << >>
  /\ cameraActive = FALSE
  /\ videoReady = FALSE
  /\ lostStreams = FALSE
  /\ apiKey \in BOOLEAN
  /\ inflight = EmptyBag
  /\ captures = 0
  /\ ops = 0
  /\ lastOp = [op |-> "init"]

Init ==
  /\ InitApp
  /\ budget = MaxOps
  /\ render = NoRender
  /\ zip = NoZip
  /\ worker = NoWorker

\* ---------------------------------------------------------------- helpers
DocIds(docs) == {docs[i].id : i \in 1..Len(docs)}

\* prev.findIndex(d => d.id === id), 1-based; 0 when there is none
FindIndex(docs, id) ==
  IF \E i \in 1..Len(docs) : docs[i].id = id
  THEN CHOOSE i \in 1..Len(docs) :
         /\ docs[i].id = id
         /\ \A j \in 1..(i - 1) : docs[j].id # id
  ELSE 0

Max(a, b) == IF a >= b THEN a ELSE b

Pending(op) == BagIn(op, inflight)
Start(op)   == inflight' = inflight (+) SetToBag({op})
Settle(op)  == inflight' = inflight (-) SetToBag({op})
CanStart    == BagCardinality(inflight) < MaxInflight
CanSpend    == captures + ops < budget

\* The delete confirmation is a fixed full-screen layer above every view.
Modal == showDeleteConfirm

\* ---------------------------------------------------------------- effects
\* A persistence effect that depends on documents.length only.
PersistenceOnLength ==
  stored' = IF Len(documents') # Len(documents) THEN JSONstringify(documents')
            ELSE stored

\* useEffect(() => localStorage.setItem('open_scan_docs',
\*                                      JSON.stringify(documents)), [documents])
Persistence ==
  stored' = IF documents' # documents THEN JSONstringify(documents') ELSE stored

\* The highlight canvas exists while the editor shows the highlight screen.
CanvasMounted(v, doc, highlighting) ==
  v = EDITOR /\ doc # NullDoc /\ highlighting

\* useEffect(..., [isHighlighting, cleanImageForHighlighting]): when it runs
\* with the canvas mounted it sizes (clears) the canvas and draws the page's
\* stored highlight layer; a canvas mounted without the effect is blank.
HighlightCanvas ==
  canvas' =
    IF ~CanvasMounted(view', currentDoc', isHighlighting') THEN 0
    ELSE IF \/ isHighlighting' # isHighlighting
            \/ cleanImageForHighlighting' # cleanImageForHighlighting
         THEN IF editorPageIndex' < Len(currentDoc'.pages)
              THEN Max(1, currentDoc'.pages[editorPageIndex' + 1].highlightsLayer)
              ELSE 1
         ELSE IF canvas = 0 THEN 1 ELSE canvas

\* stopCamera(): does it stop the tracks?  Only when videoRef.current is a
\* mounted <video> and that <video> has a srcObject.
stopCamera(videoMounted, srcObject) == videoMounted /\ srcObject

\* useEffect(..., [view]) after a render that changed the view: the cleanup
\* of the previous run and the else branch call stopCamera().  React has
\* committed the render by then: videoRef.current is null when the camera
\* view was taken down, and a new <video> without srcObject when it was put
\* up.  A stream the old <video> held stays live unless stopCamera stops it.
CameraEffect ==
  lostStreams' =
    IF view' # view /\ videoReady /\ ~stopCamera(view' = CAMERA, FALSE)
    THEN TRUE ELSE lostStreams

\* No handler of the component changes the budget of the run, and the
\* calls followed step by step are not part of a run of the component.
Frame == UNCHANGED << budget, render, zip, worker >>

Effects == Persistence /\ HighlightCanvas /\ CameraEffect /\ Frame

\* -------------------------------------------------------------- dashboard
toggleSelectionMode ==
  /\ view = DASHBOARD /\ ~Modal
  /\ Len(documents) > 0
  /\ IF isSelectionMode
     THEN isSelectionMode' = FALSE /\ selectedIds' = {}
     ELSE isSelectionMode' = TRUE /\ UNCHANGED selectedIds
  /\ lastOp' = [op |-> "ui"]
  /\ UNCHANGED << view, documents, currentDoc, editorPageIndex, isProcessing,
                  isHighlighting, cleanImageForHighlighting,
                  showTranslateDialog, targetLang, sourceLang, showExportSheet,
                  scanMode, batchPages, showDeleteConfirm, deleteTargetIds,
                  cameraActive, videoReady, apiKey, inflight, captures, ops >>
  /\ Effects

toggleDocSelection(id) ==
  /\ view = DASHBOARD /\ ~Modal
  /\ isSelectionMode
  /\ id \in DocIds(documents)
  /\ selectedIds' = IF id \in selectedIds THEN selectedIds \ {id}
                    ELSE selectedIds \cup {id}
  /\ lastOp' = [op |-> "ui"]
  /\ UNCHANGED << view, documents, currentDoc, editorPageIndex, isProcessing,
                  isHighlighting, cleanImageForHighlighting,
                  showTranslateDialog, targetLang, sourceLang, showExportSheet,
                  scanMode, batchPages, isSelectionMode, showDeleteConfirm,
                  deleteTargetIds, cameraActive, videoReady, apiKey, inflight,
                  captures, ops >>
  /\ Effects

\* onClick of a dashboard card outside selection mode
openDocument(i) ==
  /\ view = DASHBOARD /\ ~Modal
  /\ ~isSelectionMode
  /\ i \in 1..Len(documents)
  /\ currentDoc' = documents[i]
  /\ view' = DETAILS
  /\ lastOp' = [op |-> "ui"]
  /\ UNCHANGED << documents, editorPageIndex, isProcessing, isHighlighting,
                  cleanImageForHighlighting, showTranslateDialog, targetLang,
                  sourceLang, showExportSheet, scanMode, batchPages,
                  isSelectionMode, selectedIds, showDeleteConfirm,
                  deleteTargetIds, cameraActive, videoReady, apiKey, inflight,
                  captures, ops >>
  /\ Effects

\* ----------------------------------------------------------------- delete
initiateBatchDelete ==
  /\ view = DASHBOARD /\ ~Modal
  /\ isSelectionMode
  /\ selectedIds # {}
  /\ \E order \in [1..Cardinality(selectedIds) -> selectedIds] :
       /\ \A i, j \in DOMAIN order : i # j => order[i] # order[j]
       /\ \A i, j \in DOMAIN order : i < j => order[i] < order[j]
       /\ deleteTargetIds' = order
  /\ showDeleteConfirm' = TRUE
  /\ lastOp' = [op |-> "ui"]
  /\ UNCHANGED << view, documents, currentDoc, editorPageIndex, isProcessing,
                  isHighlighting, cleanImageForHighlighting,
                  showTranslateDialog, targetLang, sourceLang, showExportSheet,
                  scanMode, batchPages, isSelectionMode, selectedIds,
                  cameraActive, videoReady, apiKey, inflight, captures, ops >>
  /\ Effects

\* The bin on a dashboard card, or the bin in the header of the details view.
initiateSingleDelete(id) ==
  /\ ~Modal
  /\ \/ view = DASHBOARD /\ ~isSelectionMode /\ id \in DocIds(documents)
     \/ /\ view = DETAILS /\ currentDoc # NullDoc
        /\ ~isProcessing /\ ~showTranslateDialog /\ ~showExportSheet
        /\ id = currentDoc.id
  /\ deleteTargetIds' = << id >>
  /\ showDeleteConfirm' = TRUE
  /\ lastOp' = [op |-> "ui"]
  /\ UNCHANGED << view, documents, currentDoc, editorPageIndex, isProcessing,
                  isHighlighting, cleanImageForHighlighting,
                  showTranslateDialog, targetLang, sourceLang, showExportSheet,
                  scanMode, batchPages, isSelectionMode, selectedIds,
                  cameraActive, videoReady, apiKey, inflight, captures, ops >>
  /\ Effects

\* executeDelete with the test of the filter inverted.
RemoveTargetsInverted(prev, targets) ==
  SelectSeq(prev, LAMBDA d : \E t \in 1..Len(targets) : targets[t] = d.id)

\* executeDelete that looks at the first target only.
RemoveTargetsFirstOnly(prev, targets) ==
  SelectSeq(prev, LAMBDA d : Len(targets) = 0 \/ targets[1] # d.id)

\* prev.filter(d => !deleteTargetIds.includes(d.id))
RemoveTargets(prev, targets) ==
  SelectSeq(prev, LAMBDA d : \A t \in 1..Len(targets) : targets[t] # d.id)

executeDelete ==
  /\ Modal
  /\ documents' = RemoveTargets(documents, deleteTargetIds)
  /\ IF /\ currentDoc # NullDoc
        /\ \E t \in 1..Len(deleteTargetIds) : deleteTargetIds[t] = currentDoc.id
     THEN view' = DASHBOARD /\ currentDoc' = NullDoc
     ELSE UNCHANGED << view, currentDoc >>
  /\ isSelectionMode' = FALSE
  /\ selectedIds' = {}
  /\ showDeleteConfirm' = FALSE
  /\ deleteTargetIds' = << >>
  /\ lastOp' = [op |-> "executeDelete",
                targets |-> {deleteTargetIds[t] : t \in 1..Len(deleteTargetIds)},
                removed |-> Len(documents) - Len(documents'),
                current |-> /\ currentDoc # NullDoc
                            /\ \E t \in 1..Len(deleteTargetIds) :
                                 deleteTargetIds[t] = currentDoc.id]
  /\ UNCHANGED << editorPageIndex, isProcessing, isHighlighting,
                  cleanImageForHighlighting, showTranslateDialog, targetLang,
                  sourceLang, showExportSheet, scanMode, batchPages,
                  cameraActive, videoReady, apiKey, inflight, captures, ops >>
  /\ Effects

\* Cancel in the confirmation: setShowDeleteConfirm(false)
cancelDelete ==
  /\ Modal
  /\ showDeleteConfirm' = FALSE
  /\ lastOp' = [op |-> "ui"]
  /\ UNCHANGED << view, documents, currentDoc, editorPageIndex, isProcessing,
                  isHighlighting, cleanImageForHighlighting,
                  showTranslateDialog, targetLang, sourceLang, showExportSheet,
                  scanMode, batchPages, isSelectionMode, selectedIds,
                  deleteTargetIds, cameraActive, videoReady, apiKey, inflight,
                  captures, ops >>
  /\ Effects

\* ----------------------------------------------------------------- camera
StartCameraOp == [kind |-> "startCamera"]

\* The camera button of the dashboard; the [view] effect then calls
\* startCamera() and resets the scan mode when no batch is under way.
openCamera ==
  /\ view = DASHBOARD /\ ~Modal
  /\ ~isSelectionMode
  /\ CanStart
  /\ currentDoc' = NullDoc
  /\ view' = CAMERA
  /\ Start(StartCameraOp)
  /\ scanMode' = IF Len(batchPages) = 0 THEN "SINGLE" ELSE scanMode
  /\ videoReady' = FALSE
  /\ lastOp' = [op |-> "ui"]
  /\ UNCHANGED << documents, editorPageIndex, isProcessing, isHighlighting,
                  cleanImageForHighlighting, showTranslateDialog, targetLang,
                  sourceLang, showExportSheet, batchPages, isSelectionMode,
                  selectedIds, showDeleteConfirm, deleteTargetIds,
                  cameraActive, apiKey, captures, ops >>
  /\ Effects

\* startCamera after `await getUserMedia(...)`: the stream is attached only
\* if a <video> is mounted; a rejection ends in the alert.  A stream that
\* is not attached, and a stream that another one replaces as srcObject,
\* keeps its tracks: nothing stops them.
startCameraSettled(granted) ==
  /\ Pending(StartCameraOp)
  /\ Settle(StartCameraOp)
  /\ IF granted /\ view = CAMERA
     THEN videoReady' = TRUE /\ cameraActive' = TRUE
     ELSE UNCHANGED << videoReady, cameraActive >>
  /\ lostStreams' = IF granted /\ (view # CAMERA \/ videoReady)
                    THEN TRUE ELSE lostStreams
  /\ lastOp' = [op |-> "ui"]
  /\ UNCHANGED << view, documents, currentDoc, editorPageIndex, isProcessing,
                  isHighlighting, cleanImageForHighlighting,
                  showTranslateDialog, targetLang, sourceLang, showExportSheet,
                  scanMode, batchPages, isSelectionMode, selectedIds,
                  showDeleteConfirm, deleteTargetIds, apiKey, captures, ops >>
  /\ Persistence /\ HighlightCanvas /\ Frame

setScanMode(mode) ==
  /\ view = CAMERA /\ ~Modal
  /\ Len(batchPages) = 0
  /\ scanMode' = mode
  /\ lastOp' = [op |-> "ui"]
  /\ UNCHANGED << view, documents, currentDoc, editorPageIndex, isProcessing,
                  isHighlighting, cleanImageForHighlighting,
                  showTranslateDialog, targetLang, sourceLang, showExportSheet,
                  batchPages, isSelectionMode, selectedIds, showDeleteConfirm,
                  deleteTargetIds, cameraActive, videoReady, apiKey, inflight,
                  captures, ops >>
  /\ Effects

\* The back arrow of the camera view (shown while the batch is empty).
leaveCamera ==
  /\ view = CAMERA /\ ~Modal
  /\ Len(batchPages) = 0
  /\ view' = DASHBOARD
  /\ videoReady' = FALSE
  /\ lastOp' = [op |-> "ui"]
  /\ UNCHANGED << documents, currentDoc, editorPageIndex, isProcessing,
                  isHighlighting, cleanImageForHighlighting,
                  showTranslateDialog, targetLang, sourceLang, showExportSheet,
                  scanMode, batchPages, isSelectionMode, selectedIds,
                  showDeleteConfirm, deleteTargetIds, cameraActive, apiKey,
                  inflight, captures, ops >>
  /\ Effects

\* The document createNewDoc builds; Date.now() is the clock `now`.
NewDoc(id, now, pages) ==
  [ id          |-> id,
    title       |-> "Scan",
    createdAt   |-> now,
    category    |-> "Uncategorized",
    pages       |-> pages,
    aiSummary   |-> "",
    translation |-> NoTranslation ]

\* The page captureImage builds from the frame's data URL.
NewPage(id, dataUrl) ==
  [ id               |-> id,
    originalDataUrl  |-> dataUrl,
    processedDataUrl |-> dataUrl,
    highlightsLayer  |-> NoLayer,
    filter           |-> ORIGINAL,
    rotation         |-> 0 ]

\* createNewDoc that keeps the last page only.
createNewDocLastPage(id, now, pages) ==
  /\ currentDoc' = NewDoc(id, now, << pages[Len(pages)] >>)
  /\ editorPageIndex' = 0
  /\ view' = EDITOR

createNewDoc(id, now, pages) ==
  /\ currentDoc' = NewDoc(id, now, pages)
  /\ editorPageIndex' = 0
  /\ view' = EDITOR

captureImage(pageId, docId) ==
  /\ view = CAMERA /\ ~Modal
  /\ CanSpend
  /\ captures' = captures + 1
  /\ LET dataUrl == FrameDataUrl(IF videoReady THEN captures + 1 ELSE 0)
         newPage == NewPage(pageId, dataUrl)
     IN  IF scanMode = "BATCH"
         THEN /\ batchPages' = Append(batchPages, newPage)
              /\ UNCHANGED << currentDoc, editorPageIndex, view, videoReady >>
         ELSE /\ createNewDoc(docId, captures + 1, << newPage >>)
              /\ videoReady' = FALSE
              /\ UNCHANGED batchPages
  /\ lastOp' = [op |-> "captureImage", mode |-> scanMode]
  /\ UNCHANGED << documents, isProcessing, isHighlighting,
                  cleanImageForHighlighting, showTranslateDialog, targetLang,
                  sourceLang, showExportSheet, scanMode, isSelectionMode,
                  selectedIds, showDeleteConfirm, deleteTargetIds,
                  cameraActive, apiKey, inflight, ops >>
  /\ Effects

\* finishBatch that does not look at the length of the batch.
finishBatchUnguarded(docId) ==
  /\ view = CAMERA /\ ~Modal
  /\ createNewDoc(docId, captures, batchPages)
  /\ batchPages' = << >>
  /\ videoReady' = FALSE
  /\ lastOp' = [op |-> "finishBatch"]
  /\ UNCHANGED << documents, isProcessing, isHighlighting,
                  cleanImageForHighlighting, showTranslateDialog, targetLang,
                  sourceLang, showExportSheet, scanMode, isSelectionMode,
                  selectedIds, showDeleteConfirm, deleteTargetIds,
                  cameraActive, apiKey, inflight, captures, ops >>
  /\ Effects

finishBatch(docId) ==
  /\ view = CAMERA /\ ~Modal
  /\ Len(batchPages) > 0
  /\ createNewDoc(docId, captures, batchPages)
  /\ batchPages' = << >>
  /\ videoReady' = FALSE
  /\ lastOp' = [op |-> "finishBatch"]
  /\ UNCHANGED << documents, isProcessing, isHighlighting,
                  cleanImageForHighlighting, showTranslateDialog, targetLang,
                  sourceLang, showExportSheet, scanMode, isSelectionMode,
                  selectedIds, showDeleteConfirm, deleteTargetIds,
                  cameraActive, apiKey, inflight, captures, ops >>
  /\ Effects

\* ----------------------------------------------------------------- editor
\* renderEditor outside highlight mode: header, viewer, toolbar.
EditorShown == view = EDITOR /\ currentDoc # NullDoc /\ ~isHighlighting /\ ~Modal

\* Cancel in the editor header: setView(DASHBOARD) and nothing else.
cancelEdit ==
  /\ EditorShown
  /\ view' = DASHBOARD
  /\ lastOp' = [op |-> "ui"]
  /\ UNCHANGED << documents, currentDoc, editorPageIndex, isProcessing,
                  isHighlighting, cleanImageForHighlighting,
                  showTranslateDialog, targetLang, sourceLang, showExportSheet,
                  scanMode, batchPages, isSelectionMode, selectedIds,
                  showDeleteConfirm, deleteTargetIds, cameraActive, videoReady,
                  apiKey, inflight, captures, ops >>
  /\ Effects

\* saveDocument that leaves an entry with the same id as it is.
SaveIntoKeepFirst(prev, doc) ==
  IF FindIndex(prev, doc.id) >= 1 THEN prev ELSE << doc >> \o prev

\* saveDocument that never looks for the id.
SaveIntoPrepend(prev, doc) == << doc >> \o prev

\* saveDocument that puts a new document at the end.
SaveIntoAppend(prev, doc) ==
  LET existing == FindIndex(prev, doc.id)
  IN  IF existing >= 1 THEN [prev EXCEPT ![existing] = doc]
      ELSE Append(prev, doc)

\* The updater saveDocument passes to setDocuments.
SaveInto(prev, doc) ==
  LET existing == FindIndex(prev, doc.id)
  IN  IF existing >= 1 THEN [prev EXCEPT ![existing] = doc]
      ELSE << doc >> \o prev

saveDocument ==
  /\ EditorShown
  /\ documents' = SaveInto(documents, currentDoc)
  /\ view' = DASHBOARD
  /\ currentDoc' = NullDoc
  /\ batchPages' = << >>
  /\ lastOp' = [op |-> "saveDocument", doc |-> currentDoc,
                existing |-> FindIndex(documents, currentDoc.id)]
  /\ UNCHANGED << editorPageIndex, isProcessing, isHighlighting,
                  cleanImageForHighlighting, showTranslateDialog, targetLang,
                  sourceLang, showExportSheet, scanMode, isSelectionMode,
                  selectedIds, showDeleteConfirm, deleteTargetIds,
                  cameraActive, videoReady, apiKey, inflight, captures, ops >>
  /\ Effects

\* The chevrons of the viewer; the processing layer lies over them.
previousPage ==
  /\ EditorShown /\ ~isProcessing
  /\ Len(currentDoc.pages) > 1
  /\ editorPageIndex # 0
  /\ editorPageIndex' = Max(0, editorPageIndex - 1)
  /\ lastOp' = [op |-> "ui"]
  /\ UNCHANGED << view, documents, currentDoc, isProcessing, isHighlighting,
                  cleanImageForHighlighting, showTranslateDialog, targetLang,
                  sourceLang, showExportSheet, scanMode, batchPages,
                  isSelectionMode, selectedIds, showDeleteConfirm,
                  deleteTargetIds, cameraActive, videoReady, apiKey, inflight,
                  captures, ops >>
  /\ Effects

nextPage ==
  /\ EditorShown /\ ~isProcessing
  /\ Len(currentDoc.pages) > 1
  /\ editorPageIndex # Len(currentDoc.pages) - 1
  /\ editorPageIndex' = IF editorPageIndex + 1 <= Len(currentDoc.pages) - 1
                        THEN editorPageIndex + 1 ELSE Len(currentDoc.pages) - 1
  /\ lastOp' = [op |-> "ui"]
  /\ UNCHANGED << view, documents, currentDoc, isProcessing, isHighlighting,
                  cleanImageForHighlighting, showTranslateDialog, targetLang,
                  sourceLang, showExportSheet, scanMode, batchPages,
                  isSelectionMode, selectedIds, showDeleteConfirm,
                  deleteTargetIds, cameraActive, videoReady, apiKey, inflight,
                  captures, ops >>
  /\ Effects

\* ------------------------------------------------------ editor operations
\* currentDoc.pages[index] of a closure; index is 0-based.
HasPage(doc, index) == index < Len(doc.pages)
PageAt(doc, index)  == doc.pages[index + 1]

\* updatedPages[index] = page; setCurrentDoc({ ...doc, pages: updatedPages })
WithPage(doc, index, page) == [doc EXCEPT !.pages[index + 1] = page]

\* applyFilter up to `await processImage(...)`.  Reading a page that does
\* not exist throws after setIsProcessing(true) and ends the handler.
applyFilter(filter) ==
  /\ EditorShown
  /\ CanSpend /\ CanStart
  /\ ops' = ops + 1
  /\ isProcessing' = TRUE
  /\ IF HasPage(currentDoc, editorPageIndex)
     THEN Start([kind |-> "applyFilter", doc |-> currentDoc,
                 index |-> editorPageIndex, filter |-> filter])
     ELSE UNCHANGED inflight
  /\ lastOp' = [op |-> "applyFilter"]
  /\ UNCHANGED << view, documents, currentDoc, editorPageIndex, isHighlighting,
                  cleanImageForHighlighting, showTranslateDialog, targetLang,
                  sourceLang, showExportSheet, scanMode, batchPages,
                  isSelectionMode, selectedIds, showDeleteConfirm,
                  deleteTargetIds, cameraActive, videoReady, apiKey, captures >>
  /\ Effects

\* applyFilter that stores the new filter and keeps the old render.
FilteredPageStale(currentPage, filter) == [currentPage EXCEPT !.filter = filter]

\* applyFilter that filters the image the page shows.
FilteredPageFromDerived(currentPage, filter) ==
  [currentPage EXCEPT
     !.processedDataUrl = processImage(currentPage.processedDataUrl, filter,
                            currentPage.rotation, currentPage.highlightsLayer),
     !.filter = filter]

\* The page applyFilter stores once processImage has resolved.
FilteredPage(currentPage, filter) ==
  [currentPage EXCEPT
     !.processedDataUrl = processImage(currentPage.originalDataUrl, filter,
                            currentPage.rotation, currentPage.highlightsLayer),
     !.filter = filter]

\* applyFilter after the await; processImage resolves only if the raw image
\* loads (img.onload), there is no img.onerror.
applyFilterDone(op) ==
  /\ Pending(op) /\ op.kind = "applyFilter"
  /\ Decodes(PageAt(op.doc, op.index).originalDataUrl)
  /\ Settle(op)
  /\ currentDoc' = WithPage(op.doc, op.index,
                            FilteredPage(PageAt(op.doc, op.index), op.filter))
  /\ isProcessing' = FALSE
  /\ lastOp' = [op |-> "applyFilterDone", index |-> op.index,
                filter |-> op.filter, before |-> PageAt(op.doc, op.index)]
  /\ UNCHANGED << view, documents, editorPageIndex, isHighlighting,
                  cleanImageForHighlighting, showTranslateDialog, targetLang,
                  sourceLang, showExportSheet, scanMode, batchPages,
                  isSelectionMode, selectedIds, showDeleteConfirm,
                  deleteTargetIds, cameraActive, videoReady, apiKey, captures,
                  ops >>
  /\ Effects

rotatePage ==
  /\ EditorShown
  /\ CanSpend /\ CanStart
  /\ ops' = ops + 1
  /\ isProcessing' = TRUE
  /\ IF HasPage(currentDoc, editorPageIndex)
     THEN Start([kind |-> "rotatePage", doc |-> currentDoc,
                 index |-> editorPageIndex])
     ELSE UNCHANGED inflight
  /\ lastOp' = [op |-> "rotatePage"]
  /\ UNCHANGED << view, documents, currentDoc, editorPageIndex, isHighlighting,
                  cleanImageForHighlighting, showTranslateDialog, targetLang,
                  sourceLang, showExportSheet, scanMode, batchPages,
                  isSelectionMode, selectedIds, showDeleteConfirm,
                  deleteTargetIds, cameraActive, videoReady, apiKey, captures >>
  /\ Effects

\* rotatePage that adds a quarter turn and does not wrap.
RotatedPageUnwrapped(currentPage) ==
  LET newRotation == currentPage.rotation + 90
  IN  [currentPage EXCEPT
         !.processedDataUrl = processImage(currentPage.originalDataUrl,
                                currentPage.filter, newRotation,
                                currentPage.highlightsLayer),
         !.rotation = newRotation]

\* The page rotatePage stores once processImage has resolved.
RotatedPage(currentPage) ==
  LET newRotation == (currentPage.rotation + 90) % 360
  IN  [currentPage EXCEPT
         !.processedDataUrl = processImage(currentPage.originalDataUrl,
                                currentPage.filter, newRotation,
                                currentPage.highlightsLayer),
         !.rotation = newRotation]

rotatePageDone(op) ==
  /\ Pending(op) /\ op.kind = "rotatePage"
  /\ Decodes(PageAt(op.doc, op.index).originalDataUrl)
  /\ Settle(op)
  /\ currentDoc' = WithPage(op.doc, op.index,
                            RotatedPage(PageAt(op.doc, op.index)))
  /\ isProcessing' = FALSE
  /\ lastOp' = [op |-> "rotatePageDone"]
  /\ UNCHANGED << view, documents, editorPageIndex, isHighlighting,
                  cleanImageForHighlighting, showTranslateDialog, targetLang,
                  sourceLang, showExportSheet, scanMode, batchPages,
                  isSelectionMode, selectedIds, showDeleteConfirm,
                  deleteTargetIds, cameraActive, videoReady, apiKey, captures,
                  ops >>
  /\ Effects

\* ------------------------------------------------------------ highlighting
prepareHighlighting ==
  /\ EditorShown
  /\ CanSpend /\ CanStart
  /\ ops' = ops + 1
  /\ IF HasPage(currentDoc, editorPageIndex)
     THEN Start([kind |-> "prepareHighlighting", doc |-> currentDoc,
                 index |-> editorPageIndex])
     ELSE UNCHANGED inflight
  /\ lastOp' = [op |-> "prepareHighlighting"]
  /\ UNCHANGED << view, documents, currentDoc, editorPageIndex, isProcessing,
                  isHighlighting, cleanImageForHighlighting,
                  showTranslateDialog, targetLang, sourceLang, showExportSheet,
                  scanMode, batchPages, isSelectionMode, selectedIds,
                  showDeleteConfirm, deleteTargetIds, cameraActive, videoReady,
                  apiKey, captures >>
  /\ Effects

prepareHighlightingDone(op) ==
  /\ Pending(op) /\ op.kind = "prepareHighlighting"
  /\ Decodes(PageAt(op.doc, op.index).originalDataUrl)
  /\ Settle(op)
  /\ LET page == PageAt(op.doc, op.index)
     IN  cleanImageForHighlighting' =
           processImage(page.originalDataUrl, page.filter, page.rotation,
                        NoLayer)
  /\ isHighlighting' = TRUE
  /\ lastOp' = [op |-> "prepareHighlightingDone"]
  /\ UNCHANGED << view, documents, currentDoc, editorPageIndex, isProcessing,
                  showTranslateDialog, targetLang, sourceLang, showExportSheet,
                  scanMode, batchPages, isSelectionMode, selectedIds,
                  showDeleteConfirm, deleteTargetIds, cameraActive, videoReady,
                  apiKey, captures, ops >>
  /\ Effects

\* renderEditor in highlight mode: Cancel, Done, the canvas, the colours.
HighlightShown == view = EDITOR /\ currentDoc # NullDoc /\ isHighlighting /\ ~Modal

\* Cancel of the highlight screen: setIsHighlighting(false)
cancelHighlighting ==
  /\ HighlightShown
  /\ isHighlighting' = FALSE
  /\ lastOp' = [op |-> "ui"]
  /\ UNCHANGED << view, documents, currentDoc, editorPageIndex, isProcessing,
                  cleanImageForHighlighting, showTranslateDialog, targetLang,
                  sourceLang, showExportSheet, scanMode, batchPages,
                  isSelectionMode, selectedIds, showDeleteConfirm,
                  deleteTargetIds, cameraActive, videoReady, apiKey, inflight,
                  captures, ops >>
  /\ Effects

\* startDrawing / draw / stopDrawing: one more stroke on the canvas.
draw ==
  /\ HighlightShown
  /\ canvas >= 1 /\ canvas < MaxLayer
  /\ canvas' = canvas + 1
  /\ lastOp' = [op |-> "ui"]
  /\ UNCHANGED << view, documents, currentDoc, editorPageIndex, isProcessing,
                  isHighlighting, cleanImageForHighlighting,
                  showTranslateDialog, targetLang, sourceLang, showExportSheet,
                  scanMode, batchPages, isSelectionMode, selectedIds,
                  showDeleteConfirm, deleteTargetIds, cameraActive, videoReady,
                  apiKey, inflight, captures, ops >>
  /\ Persistence /\ CameraEffect /\ Frame

saveHighlights ==
  /\ HighlightShown
  /\ canvas >= 1
  /\ CanSpend /\ CanStart
  /\ ops' = ops + 1
  /\ IF HasPage(currentDoc, editorPageIndex)
     THEN Start([kind |-> "saveHighlights", doc |-> currentDoc,
                 index |-> editorPageIndex, highlightsDataUrl |-> canvas])
     ELSE UNCHANGED inflight
  /\ lastOp' = [op |-> "saveHighlights"]
  /\ UNCHANGED << view, documents, currentDoc, editorPageIndex, isProcessing,
                  isHighlighting, cleanImageForHighlighting,
                  showTranslateDialog, targetLang, sourceLang, showExportSheet,
                  scanMode, batchPages, isSelectionMode, selectedIds,
                  showDeleteConfirm, deleteTargetIds, cameraActive, videoReady,
                  apiKey, captures >>
  /\ Effects

\* The page saveHighlights stores once processImage has resolved.
HighlightedPage(page, highlightsDataUrl) ==
  [page EXCEPT
     !.highlightsLayer = highlightsDataUrl,
     !.processedDataUrl = processImage(page.originalDataUrl, page.filter,
                                       page.rotation, highlightsDataUrl)]

saveHighlightsDone(op) ==
  /\ Pending(op) /\ op.kind = "saveHighlights"
  /\ Decodes(PageAt(op.doc, op.index).originalDataUrl)
  /\ Settle(op)
  /\ currentDoc' = WithPage(op.doc, op.index,
                     HighlightedPage(PageAt(op.doc, op.index),
                                     op.highlightsDataUrl))
  /\ isHighlighting' = FALSE
  /\ lastOp' = [op |-> "saveHighlightsDone"]
  /\ UNCHANGED << view, documents, editorPageIndex, isProcessing,
                  cleanImageForHighlighting, showTranslateDialog, targetLang,
                  sourceLang, showExportSheet, scanMode, batchPages,
                  isSelectionMode, selectedIds, showDeleteConfirm,
                  deleteTargetIds, cameraActive, videoReady, apiKey, captures,
                  ops >>
  /\ Effects

\* ---------------------------------------------------------------- details
\* renderDetails; the processing layer (z-60) lies over the whole view.
DetailsShown == view = DETAILS /\ currentDoc # NullDoc /\ ~Modal /\ ~isProcessing

\* Neither the export sheet nor the translate dialog lies over the page.
DetailsBase == DetailsShown /\ ~showTranslateDialog /\ ~showExportSheet

\* The back arrow of the details header.
closeDetails ==
  /\ DetailsBase
  /\ view' = DASHBOARD
  /\ lastOp' = [op |-> "ui"]
  /\ UNCHANGED << documents, currentDoc, editorPageIndex, isProcessing,
                  isHighlighting, cleanImageForHighlighting,
                  showTranslateDialog, targetLang, sourceLang, showExportSheet,
                  scanMode, batchPages, isSelectionMode, selectedIds,
                  showDeleteConfirm, deleteTargetIds, cameraActive, videoReady,
                  apiKey, inflight, captures, ops >>
  /\ Effects

setShowExportSheet(shown) ==
  /\ IF shown THEN DetailsBase
     ELSE DetailsShown /\ showExportSheet /\ ~showTranslateDialog
  /\ showExportSheet' = shown
  /\ lastOp' = [op |-> "ui"]
  /\ UNCHANGED << view, documents, currentDoc, editorPageIndex, isProcessing,
                  isHighlighting, cleanImageForHighlighting,
                  showTranslateDialog, targetLang, sourceLang, scanMode,
                  batchPages, isSelectionMode, selectedIds, showDeleteConfirm,
                  deleteTargetIds, cameraActive, videoReady, apiKey, inflight,
                  captures, ops >>
  /\ Effects

setShowTranslateDialog(shown) ==
  /\ IF shown THEN DetailsBase /\ currentDoc.aiSummary # ""
     ELSE DetailsShown /\ showTranslateDialog
  /\ showTranslateDialog' = shown
  /\ lastOp' = [op |-> "ui"]
  /\ UNCHANGED << view, documents, currentDoc, editorPageIndex, isProcessing,
                  isHighlighting, cleanImageForHighlighting, targetLang,
                  sourceLang, showExportSheet, scanMode, batchPages,
                  isSelectionMode, selectedIds, showDeleteConfirm,
                  deleteTargetIds, cameraActive, videoReady, apiKey, inflight,
                  captures, ops >>
  /\ Effects

setTargetLang(lang) ==
  /\ DetailsShown /\ showTranslateDialog
  /\ lang # targetLang
  /\ CanSpend
  /\ ops' = ops + 1
  /\ targetLang' = lang
  /\ lastOp' = [op |-> "ui"]
  /\ UNCHANGED << view, documents, currentDoc, editorPageIndex, isProcessing,
                  isHighlighting, cleanImageForHighlighting,
                  showTranslateDialog, sourceLang, showExportSheet, scanMode,
                  batchPages, isSelectionMode, selectedIds, showDeleteConfirm,
                  deleteTargetIds, cameraActive, videoReady, apiKey, inflight,
                  captures >>
  /\ Effects

setSourceLang(lang) ==
  /\ DetailsShown /\ showTranslateDialog
  /\ lang # sourceLang
  /\ CanSpend
  /\ ops' = ops + 1
  /\ sourceLang' = lang
  /\ lastOp' = [op |-> "ui"]
  /\ UNCHANGED << view, documents, currentDoc, editorPageIndex, isProcessing,
                  isHighlighting, cleanImageForHighlighting,
                  showTranslateDialog, targetLang, showExportSheet, scanMode,
                  batchPages, isSelectionMode, selectedIds, showDeleteConfirm,
                  deleteTargetIds, cameraActive, videoReady, apiKey, inflight,
                  captures >>
  /\ Effects

\* ---------------------------------------------------------------- services
\* "AI Identify" of the editor toolbar, or of the details view while the
\* document has no summary.  Without an API key analyzeDocument rejects at
\* once: alert, and the finally block clears the flag.
triggerAIAnalysis ==
  /\ \/ EditorShown
     \/ DetailsBase /\ currentDoc.aiSummary = ""
  /\ Len(currentDoc.pages) # 0
  /\ CanSpend /\ CanStart
  /\ ops' = ops + 1
  /\ IF apiKey
     THEN /\ isProcessing' = TRUE
          /\ Start([kind |-> "triggerAIAnalysis", doc |-> currentDoc])
          /\ lastOp' = [op |-> "triggerAIAnalysis", outcome |-> "pending"]
     ELSE /\ isProcessing' = FALSE
          /\ UNCHANGED inflight
          /\ lastOp' = [op |-> "triggerAIAnalysis", outcome |-> "keyMissing"]
  /\ UNCHANGED << view, documents, currentDoc, editorPageIndex, isHighlighting,
                  cleanImageForHighlighting, showTranslateDialog, targetLang,
                  sourceLang, showExportSheet, scanMode, batchPages,
                  isSelectionMode, selectedIds, showDeleteConfirm,
                  deleteTargetIds, cameraActive, videoReady, apiKey, captures >>
  /\ Effects

\* { ...currentDoc, title, category, aiSummary } of the closure
AnalysedDoc(doc, result) ==
  [doc EXCEPT !.title = result.title, !.category = result.category,
              !.aiSummary = result.summary]

\* triggerAIAnalysis that also writes its result through to the collection.
triggerAIAnalysisDoneSaving(op, outcome) ==
  /\ Pending(op) /\ op.kind = "triggerAIAnalysis"
  /\ Settle(op)
  /\ currentDoc' = AnalysedDoc(op.doc, analyzeDocument(outcome))
  /\ documents' = [i \in 1..Len(documents) |->
                     IF documents[i].id = op.doc.id
                     THEN AnalysedDoc(op.doc, analyzeDocument(outcome))
                     ELSE documents[i]]
  /\ isProcessing' = FALSE
  /\ lastOp' = [op |-> "triggerAIAnalysisDone", outcome |-> outcome]
  /\ UNCHANGED << view, editorPageIndex, isHighlighting,
                  cleanImageForHighlighting, showTranslateDialog, targetLang,
                  sourceLang, showExportSheet, scanMode, batchPages,
                  isSelectionMode, selectedIds, showDeleteConfirm,
                  deleteTargetIds, cameraActive, videoReady, apiKey, captures,
                  ops >>
  /\ Effects

triggerAIAnalysisDone(op, outcome) ==
  /\ Pending(op) /\ op.kind = "triggerAIAnalysis"
  /\ Settle(op)
  /\ currentDoc' = AnalysedDoc(op.doc, analyzeDocument(outcome))
  /\ isProcessing' = FALSE
  /\ lastOp' = [op |-> "triggerAIAnalysisDone", outcome |-> outcome]
  /\ UNCHANGED << view, documents, editorPageIndex, isHighlighting,
                  cleanImageForHighlighting, showTranslateDialog, targetLang,
                  sourceLang, showExportSheet, scanMode, batchPages,
                  isSelectionMode, selectedIds, showDeleteConfirm,
                  deleteTargetIds, cameraActive, videoReady, apiKey, captures,
                  ops >>
  /\ Effects

\* triggerTranslation that does not look at the summary.
triggerTranslationUnguarded ==
  /\ DetailsShown /\ showTranslateDialog
  /\ CanSpend /\ CanStart
  /\ ops' = ops + 1
  /\ IF apiKey
     THEN /\ isProcessing' = TRUE
          /\ Start([kind |-> "triggerTranslation", doc |-> currentDoc,
                    targetLang |-> targetLang, sourceLang |-> sourceLang])
          /\ lastOp' = [op |-> "triggerTranslation", outcome |-> "pending"]
     ELSE /\ isProcessing' = FALSE
          /\ UNCHANGED inflight
          /\ lastOp' = [op |-> "triggerTranslation", outcome |-> "keyMissing"]
  /\ UNCHANGED << view, documents, currentDoc, editorPageIndex, isHighlighting,
                  cleanImageForHighlighting, showTranslateDialog, targetLang,
                  sourceLang, showExportSheet, scanMode, batchPages,
                  isSelectionMode, selectedIds, showDeleteConfirm,
                  deleteTargetIds, cameraActive, videoReady, apiKey, captures >>
  /\ Effects

\* "Translate Now" of the dialog (disabled while isProcessing).
triggerTranslation ==
  /\ DetailsShown /\ showTranslateDialog
  /\ currentDoc.aiSummary # ""
  /\ CanSpend /\ CanStart
  /\ ops' = ops + 1
  /\ IF apiKey
     THEN /\ isProcessing' = TRUE
          /\ Start([kind |-> "triggerTranslation", doc |-> currentDoc,
                    targetLang |-> targetLang, sourceLang |-> sourceLang])
          /\ lastOp' = [op |-> "triggerTranslation", outcome |-> "pending"]
     ELSE /\ isProcessing' = FALSE
          /\ UNCHANGED inflight
          /\ lastOp' = [op |-> "triggerTranslation", outcome |-> "keyMissing"]
  /\ UNCHANGED << view, documents, currentDoc, editorPageIndex, isHighlighting,
                  cleanImageForHighlighting, showTranslateDialog, targetLang,
                  sourceLang, showExportSheet, scanMode, batchPages,
                  isSelectionMode, selectedIds, showDeleteConfirm,
                  deleteTargetIds, cameraActive, videoReady, apiKey, captures >>
  /\ Effects

\* { ...currentDoc, translation: { sourceLang, targetLang, text } }
TranslatedDoc(doc, source, target, text) ==
  [doc EXCEPT !.translation =
     [sourceLang |-> source, targetLang |-> target, text |-> text]]

\* prev.map(d => d.id === updatedDoc.id ? updatedDoc : d)
ReplaceById(prev, updatedDoc) ==
  [i \in 1..Len(prev) |->
     IF prev[i].id = updatedDoc.id THEN updatedDoc ELSE prev[i]]

triggerTranslationDone(op, outcome) ==
  /\ Pending(op) /\ op.kind = "triggerTranslation"
  /\ Settle(op)
  /\ LET updatedDoc == TranslatedDoc(op.doc, op.sourceLang, op.targetLang,
                                     translateText(outcome))
     IN  /\ currentDoc' = updatedDoc
         /\ documents' = ReplaceById(documents, updatedDoc)
  /\ showTranslateDialog' = FALSE
  /\ isProcessing' = FALSE
  /\ lastOp' = [op |-> "triggerTranslationDone", outcome |-> outcome]
  /\ UNCHANGED << view, editorPageIndex, isHighlighting,
                  cleanImageForHighlighting, targetLang, sourceLang,
                  showExportSheet, scanMode, batchPages, isSelectionMode,
                  selectedIds, showDeleteConfirm, deleteTargetIds,
                  cameraActive, videoReady, apiKey, captures, ops >>
  /\ Effects

\* ------------------------------------------------------------------ export
ExportTypes  == {"pdf", "img", "txt"}
ImageFormats == {"jpeg", "png", "webp"}

\* data.match(/image\/(\w+)/)?.[1] || 'jpeg'
CurrentFormat(dataUrl) == IF dataUrl.enc = "none" THEN "jpeg" ELSE "jpeg"

\* Does the export wait for something (an image load, the archive)?
ExportAwaits(doc, type, imgFormat) ==
  \/ type = "pdf"
  \/ /\ type = "img"
     /\ \/ Len(doc.pages) # 1
        \/ imgFormat # CurrentFormat(doc.pages[1].processedDataUrl)

\* Can everything the export waits for arrive?  An image that does not
\* decode never fires onload, here as in processImage.
ExportSettles(doc, type, imgFormat) ==
  \A i \in 1..Len(doc.pages) :
     \/ Decodes(doc.pages[i].processedDataUrl)
     \/ /\ type = "img"
        /\ imgFormat = CurrentFormat(doc.pages[i].processedDataUrl)

handleExport(type, imgFormat) ==
  /\ DetailsShown /\ showExportSheet /\ ~showTranslateDialog
  /\ type # "img" => imgFormat = "jpeg"
  /\ CanSpend /\ CanStart
  /\ ops' = ops + 1
  /\ IF ExportAwaits(currentDoc, type, imgFormat)
     THEN /\ isProcessing' = TRUE
          /\ Start([kind |-> "handleExport", doc |-> currentDoc,
                    type |-> type, imgFormat |-> imgFormat])
          /\ UNCHANGED showExportSheet
     ELSE /\ isProcessing' = FALSE
          /\ showExportSheet' = FALSE
          /\ UNCHANGED inflight
  /\ lastOp' = [op |-> "handleExport"]
  /\ UNCHANGED << view, documents, currentDoc, editorPageIndex, isHighlighting,
                  cleanImageForHighlighting, showTranslateDialog, targetLang,
                  sourceLang, scanMode, batchPages, isSelectionMode,
                  selectedIds, showDeleteConfirm, deleteTargetIds,
                  cameraActive, videoReady, apiKey, captures >>
  /\ Effects

\* handleExport that goes back to the dashboard after a download.
handleExportDoneLeaving(op, succeeded) ==
  /\ Pending(op) /\ op.kind = "handleExport"
  /\ ExportSettles(op.doc, op.type, op.imgFormat)
  /\ Settle(op)
  /\ showExportSheet' = IF succeeded THEN FALSE ELSE showExportSheet
  /\ view' = IF succeeded THEN DASHBOARD ELSE view
  /\ isProcessing' = FALSE
  /\ lastOp' = [op |-> "handleExportDone", succeeded |-> succeeded]
  /\ UNCHANGED << documents, currentDoc, editorPageIndex, isHighlighting,
                  cleanImageForHighlighting, showTranslateDialog, targetLang,
                  sourceLang, scanMode, batchPages, isSelectionMode,
                  selectedIds, showDeleteConfirm, deleteTargetIds,
                  cameraActive, videoReady, apiKey, captures, ops >>
  /\ Effects

\* handleExport after the await: the sheet closes, or the catch block
\* alerts; the finally block clears the flag.
handleExportDone(op, succeeded) ==
  /\ Pending(op) /\ op.kind = "handleExport"
  /\ ExportSettles(op.doc, op.type, op.imgFormat)
  /\ Settle(op)
  /\ showExportSheet' = IF succeeded THEN FALSE ELSE showExportSheet
  /\ isProcessing' = FALSE
  /\ lastOp' = [op |-> "handleExportDone", succeeded |-> succeeded]
  /\ UNCHANGED << view, documents, currentDoc, editorPageIndex, isHighlighting,
                  cleanImageForHighlighting, showTranslateDialog, targetLang,
                  sourceLang, scanMode, batchPages, isSelectionMode,
                  selectedIds, showDeleteConfirm, deleteTargetIds,
                  cameraActive, videoReady, apiKey, captures, ops >>
  /\ Effects

\* ------------------------------------------- processImage, step by step
\* The call processImage(dataUrl, filter, rotation, highlightsLayer) on an
\* image of one pixel, one action per stage of the code.
\*   dataUrl          does the image to process decode?
\*   highlightsLayer  "undefined", "png" (a layer that decodes) or "broken"
\*   pixel            the pixel of the decoded image
\*   data             imageData.data, a Uint8ClampedArray
\*   overlay          has the highlight layer been drawn on the canvas?

\* Channel values of the pixels the filters are run on.
PixelLevels == {0, 127, 128, 129, 255}

Pixels == [r : PixelLevels, g : PixelLevels, b : PixelLevels, a : {255}]

Rotations == {0, 90, 180, 270}

\* The store of the number num / den into a Uint8ClampedArray: rounded to
\* the nearest integer, halves to the even one, then clamped to 0..255.
ToUint8Clamped(num, den) ==
  LET q == num \div den
      r == num % den
      n == IF 2 * r > den \/ (2 * r = den /\ q % 2 = 1) THEN q + 1 ELSE q
  IN  IF n > 255 THEN 255 ELSE IF n < 0 THEN 0 ELSE n

\* A grayscale pass that truncates the average.
GrayscaleTruncating(px) ==
  LET avg == (px.r + px.g + px.b) \div 3
  IN  [px EXCEPT !.r = avg, !.g = avg, !.b = avg]

\* const avg = (data[i] + data[i + 1] + data[i + 2]) / 3; data[i] = avg; ...
Grayscale(px) ==
  LET avg == ToUint8Clamped(px.r + px.g + px.b, 3)
  IN  [px EXCEPT !.r = avg, !.g = avg, !.b = avg]

\* v = v < 128 ? v * 0.8 : v * 1.2, clamped, stored in the three channels
MagicEnhance(px) ==
  LET v == IF px.r < 128 THEN ToUint8Clamped(4 * px.r, 5)
           ELSE ToUint8Clamped(6 * px.r, 5)
  IN  [px EXCEPT !.r = v, !.g = v, !.b = v]

\* const v = data[i] > 128 ? 255 : 0
Binarize(px) ==
  LET v == IF px.r > 128 THEN 255 ELSE 0
  IN  [px EXCEPT !.r = v, !.g = v, !.b = v]

RenderStep(next) ==
  render' = next /\ UNCHANGED << appVars, budget, zip, worker >>

\* img.onload: the canvas takes the rotated size and the image is drawn
\* rotated.  An image that does not decode fires onerror, which has no
\* handler: the promise stays pending.
imgOnload ==
  /\ render.pc = "load"
  /\ render.dataUrl
  /\ RenderStep([render EXCEPT !.pc = "grayscale", !.data = render.pixel])

grayscalePass ==
  /\ render.pc = "grayscale"
  /\ RenderStep([render EXCEPT
       !.pc = "enhance",
       !.data = IF render.filter \in {GRAYSCALE, MAGIC_ENHANCE, BW}
                THEN Grayscale(render.data) ELSE render.data])

enhancePass ==
  /\ render.pc = "enhance"
  /\ RenderStep([render EXCEPT
       !.pc = "bw",
       !.data = IF render.filter = MAGIC_ENHANCE
                THEN MagicEnhance(render.data) ELSE render.data])

binarizePass ==
  /\ render.pc = "bw"
  /\ RenderStep([render EXCEPT
       !.pc = "put",
       !.data = IF render.filter = BW
                THEN Binarize(render.data) ELSE render.data])

\* ctx.putImageData, then `if (highlightsLayer)`: without a layer the
\* promise resolves at once, with one the layer is loaded first.
overlayHighlights ==
  /\ render.pc = "put"
  /\ RenderStep([render EXCEPT
       !.pc = IF render.highlightsLayer = "undefined" THEN "resolved"
              ELSE "hlPending"])

\* hlImg.onload: the layer is drawn over the canvas, then resolve
hlOnload ==
  /\ render.pc = "hlPending"
  /\ render.highlightsLayer = "png"
  /\ RenderStep([render EXCEPT !.pc = "resolved", !.overlay = TRUE])

\* An hlImg without onerror handler: the promise stays pending.
hlOnerrorMissing ==
  /\ render.pc = "hlPending"
  /\ render.highlightsLayer = "broken"
  /\ FALSE
  /\ RenderStep(render)

\* hlImg.onerror: resolve with the canvas as it is
hlOnerror ==
  /\ render.pc = "hlPending"
  /\ render.highlightsLayer = "broken"
  /\ RenderStep([render EXCEPT !.pc = "resolved"])

\* The calls of processImage that are followed.
InitRender ==
  /\ InitApp
  /\ budget = MaxOps
  /\ zip = NoZip
  /\ worker = NoWorker
  /\ render \in [ pc              : {"load"},
                  dataUrl         : BOOLEAN,
                  filter          : FilterType,
                  rotation        : Rotations,
                  highlightsLayer : {"undefined", "png", "broken"},
                  pixel           : Pixels,
                  data            : {[r |-> 0, g |-> 0, b |-> 0, a |-> 0]},
                  overlay         : {FALSE} ]

NextRender ==
  \/ imgOnload
  \/ grayscalePass
  \/ enhancePass
  \/ binarizePass
  \/ overlayHighlights
  \/ hlOnload
  \/ hlOnerror

SpecRender == InitRender /\ [][NextRender]_vars

\* -------------------------------------------- exportToZIP, step by step
\* The call exportToZIP(doc, format), one action per turn of the event
\* loop.  zip.pages are the processedDataUrl of doc.pages, zip.pending the
\* (0-based) indices whose callback waits for convertToFormat, zip.files
\* the files of the folder by name.

\* canvas.toDataURL(`image/${format}`, quality) of the decoded data URL
convertToFormat(dataUrl, format) == [src |-> dataUrl, enc |-> format]

\* `page_${index + 1}.${format}`
PageFileName(index, format) == [name |-> "page", n |-> index + 1, ext |-> format]

\* folder.file(name, content): a file of that name is replaced
FolderFile(files, name, content) ==
  {f \in files : f.name # name} \cup {[name |-> name, content |-> content]}

\* metaContent: the head, then the sections of what the document has
MetaContent(aiSummary, translation) ==
  << "Title Date Category" >>
  \o (IF aiSummary # "" THEN << [section |-> "AI Summary", text |-> aiSummary] >>
      ELSE << >>)
  \o (IF translation # NoTranslation
      THEN << [section |-> "Translation", lang |-> translation.targetLang,
               text |-> translation.text] >>
      ELSE << >>)

ZipStep(next) ==
  zip' = next /\ UNCHANGED << appVars, budget, render, worker >>

RECURSIVE MapPages(_, _, _, _)
\* doc.pages.map(async (page, index) => ...) up to the first await of each
\* callback, from index on: a page in the format asked for is filed at once.
MapPages(pages, format, index, files) ==
  IF index >= Len(pages) THEN files
  ELSE MapPages(pages, format, index + 1,
         IF format = CurrentFormat(pages[index + 1])
         THEN FolderFile(files, PageFileName(index, format), pages[index + 1])
         ELSE files)

zipMapPages ==
  /\ zip.pc = "map"
  /\ ZipStep([zip EXCEPT
       !.pc = "all",
       !.files = MapPages(zip.pages, zip.format, 0, {}),
       !.pending = {i \in 0..(Len(zip.pages) - 1) :
                      zip.format # CurrentFormat(zip.pages[i + 1])}])

\* A callback that numbers its file by the order of completion.
convertToFormatDoneInOrder(index) ==
  /\ zip.pc = "all"
  /\ index \in zip.pending
  /\ Decodes(zip.pages[index + 1])
  /\ ZipStep([zip EXCEPT
       !.files = FolderFile(zip.files,
                   PageFileName(Cardinality(zip.files), zip.format),
                   convertToFormat(zip.pages[index + 1], zip.format)),
       !.pending = zip.pending \ {index}])

\* The callback of page `index` after `await convertToFormat(data, format)`;
\* the conversions complete in any order, and only of images that decode.
convertToFormatDone(index) ==
  /\ zip.pc = "all"
  /\ index \in zip.pending
  /\ Decodes(zip.pages[index + 1])
  /\ ZipStep([zip EXCEPT
       !.files = FolderFile(zip.files, PageFileName(index, zip.format),
                   convertToFormat(zip.pages[index + 1], zip.format)),
       !.pending = zip.pending \ {index}])

\* After `await Promise.all(...)`: info.txt, then zip.generateAsync
zipAddInfo ==
  /\ zip.pc = "all"
  /\ zip.pending = {}
  /\ ZipStep([zip EXCEPT
       !.pc = "generate",
       !.files = FolderFile(zip.files, [name |-> "info.txt"],
                            MetaContent(zip.aiSummary, zip.translation))])

\* After `await zip.generateAsync(...)`: the archive is downloaded
zipDownload ==
  /\ zip.pc = "generate"
  /\ ZipStep([zip EXCEPT !.pc = "done"])

\* The documents handed to exportToZIP: up to MaxPages pages, each a JPEG
\* of the application or the empty data URL of a frame without video.
ZipPages ==
  UNION {[1..n -> {"jpeg85", "none"}] : n \in 0..MaxPages}

InitZip ==
  /\ InitApp
  /\ budget = MaxOps
  /\ render = NoRender
  /\ worker = NoWorker
  /\ \E encs \in ZipPages, format \in ImageFormats,
        aiSummary \in {"", "AI summary"},
        translation \in {NoTranslation,
                         [sourceLang |-> "Auto", targetLang |-> "Spanish",
                          text |-> "Translated text"]} :
       zip = [ pc          |-> "map",
               pages       |-> [i \in 1..Len(encs) |->
                                  [frame |-> i, enc |-> encs[i]]],
               format      |-> format,
               aiSummary   |-> aiSummary,
               translation |-> translation,
               pending     |-> {},
               files       |-> {} ]

NextZip ==
  \/ zipMapPages
  \/ \E index \in 0..(MaxPages - 1) : convertToFormatDone(index)
  \/ zipAddInfo
  \/ zipDownload

SpecZip == InitZip /\ [][NextZip]_vars

\* ------------------------------------------ the service worker, step by step
\* The worker of src/unnamed/part_001: its install handler, then fetch
\* events one after the other.  worker.cache is the cache 'openscan-v1' by
\* URL, worker.puts the cache.put calls that have not run yet, worker.answer
\* what respondWith has been given for the request in hand.
MaxRequests == 2   \* fetch events the worker handles in one run

IndexHtml == "./index.html"

\* The URLs that are followed: index.html, which is in URLS_TO_CACHE, and
\* a URL of the application that is not.
Urls          == {IndexHtml, "./scan"}
URLS_TO_CACHE == {IndexHtml}

\* undefined, where a Response is expected
NoResponse == [undefined |-> TRUE]
\* respondWith's promise has not settled
Unanswered == [pending |-> TRUE]

Requests == [url : Urls, mode : {"navigate", "cors"}, method : {"GET", "POST"}]

\* What fetch can resolve to for the n-th request.
NetworkResponses(n) ==
  { [status |-> st[1], type |-> st[2], fetched |-> n] :
      st \in {<<200, "basic">>, <<200, "cors">>, <<404, "basic">>,
              <<404, "cors">>, <<0, "opaque">>} }

\* The response cache.addAll stores for a URL of URLS_TO_CACHE.
Precached == [status |-> 200, type |-> "basic", fetched |-> 0]

\* The test of the fetch handler read as (a || b || c) && d.
IsValidMisparsed(networkResponse) ==
  ~( /\ \/ networkResponse = NoResponse
        \/ networkResponse.status # 200
        \/ networkResponse.type # "basic"
     /\ networkResponse.type # "cors" )

\* The negation of the test
\*   !networkResponse || status !== 200 || type !== 'basic' && type !== 'cors'
\* (&& binds tighter than ||).
IsValid(networkResponse) ==
  ~( \/ networkResponse = NoResponse
     \/ networkResponse.status # 200
     \/ (networkResponse.type # "basic" /\ networkResponse.type # "cors") )

\* caches.match(request): the stored response, or undefined; a request
\* that is not a GET matches nothing.
cachesMatch(cache, request) ==
  IF request.method = "GET" THEN cache[request.url] ELSE NoResponse

WorkerStep(next) ==
  worker' = next /\ UNCHANGED << appVars, budget, render, zip >>

\* The install handler: cache.addAll stores every URL of the list or, if
\* one of them cannot be fetched, none; the failure is caught and logged.
install(precached) ==
  /\ worker.pc = "install"
  /\ WorkerStep([worker EXCEPT
       !.pc = "idle",
       !.last = "install",
       !.cache = IF precached
                 THEN [u \in Urls |-> IF u \in URLS_TO_CACHE THEN Precached
                                      ELSE worker.cache[u]]
                 ELSE worker.cache])

\* The fetch handler up to `return cachedResponse || fetchPromise`.
fetchEvent(request) ==
  /\ worker.pc = "idle"
  /\ worker.handled < MaxRequests
  /\ LET cachedResponse == cachesMatch(worker.cache, request)
     IN  WorkerStep([worker EXCEPT
           !.pc = "fetching",
           !.last = "fetchEvent",
           !.handled = worker.handled + 1,
           !.request = request,
           !.network = Unanswered,
           !.answer = IF cachedResponse # NoResponse THEN cachedResponse
                      ELSE Unanswered])

\* fetch(event.request) has resolved: the .then callback.
fetchResolved(networkResponse) ==
  /\ worker.pc = "fetching"
  /\ WorkerStep([worker EXCEPT
       !.pc = "idle",
       !.last = "fetchResolved",
       !.network = networkResponse,
       !.puts = IF IsValid(networkResponse)
                THEN worker.puts \cup {[request  |-> worker.request,
                                        response |-> networkResponse]}
                ELSE worker.puts,
       !.answer = IF worker.answer = Unanswered THEN networkResponse
                  ELSE worker.answer])

\* fetch(event.request) has rejected: the .catch callback.
fetchRejected ==
  /\ worker.pc = "fetching"
  /\ LET fallback ==
           IF worker.request.mode = "navigate"
           THEN cachesMatch(worker.cache,
                            [url |-> IndexHtml, mode |-> "cors",
                             method |-> "GET"])
           ELSE NoResponse
     IN  WorkerStep([worker EXCEPT
           !.pc = "idle",
           !.last = "fetchRejected",
           !.network = NoResponse,
           !.answer = IF worker.answer = Unanswered THEN fallback
                      ELSE worker.answer])

\* caches.open(CACHE_NAME).then(cache => cache.put(request, responseToCache));
\* put rejects for a request that is not a GET.
cachePut(p) ==
  /\ p \in worker.puts
  /\ WorkerStep([worker EXCEPT
       !.last = "cachePut",
       !.puts = worker.puts \ {p},
       !.cache = IF p.request.method = "GET"
                 THEN [worker.cache EXCEPT ![p.request.url] = p.response]
                 ELSE worker.cache])

\* The worker before its install event, with an empty cache.
InitWorker ==
  /\ InitApp
  /\ budget = MaxOps
  /\ render = NoRender
  /\ zip = NoZip
  /\ worker = [ pc      |-> "install",
                last    |-> "none",
                cache   |-> [u \in Urls |-> NoResponse],
                puts    |-> {},
                handled |-> 0,
                request |-> [url |-> IndexHtml, mode |-> "navigate",
                             method |-> "GET"],
                network |-> Unanswered,
                answer  |-> Unanswered ]

NextWorker ==
  \/ \E precached \in BOOLEAN : install(precached)
  \/ \E request \in Requests : fetchEvent(request)
  \/ \E networkResponse \in NetworkResponses(worker.handled) :
       fetchResolved(networkResponse)
  \/ fetchRejected
  \/ \E p \in worker.puts : cachePut(p)

SpecWorker == InitWorker /\ [][NextWorker]_vars

\* ------------------------------------------------------------ specification
\* The dashboard and the delete confirmation.
Dashboard ==
  \/ toggleSelectionMode
  \/ \E id \in generateId : toggleDocSelection(id)
  \/ \E i \in 1..Len(documents) : openDocument(i)
  \/ initiateBatchDelete
  \/ \E id \in generateId : initiateSingleDelete(id)
  \/ executeDelete
  \/ cancelDelete

\* The camera view, and the header of the editor it leads to.
Capture ==
  \/ openCamera
  \/ \E granted \in BOOLEAN : startCameraSettled(granted)
  \/ \E mode \in {"SINGLE", "BATCH"} : setScanMode(mode)
  \/ leaveCamera
  \/ \E pageId \in PageIds, docId \in generateId :
       captureImage(pageId, docId)
  \/ \E docId \in generateId : finishBatch(docId)
  \/ cancelEdit
  \/ saveDocument

\* "AI Identify", in the editor and in the details view.
Analysis ==
  \/ triggerAIAnalysis
  \/ \E op \in BagToSet(inflight), outcome \in AnalysisOutcomes :
       triggerAIAnalysisDone(op, outcome)

\* The chevrons of the editor.
Pagination ==
  \/ previousPage
  \/ nextPage

\* The filter buttons of the editor.
Filtering ==
  \/ \E filter \in FilterType : applyFilter(filter)
  \/ \E op \in BagToSet(inflight) : applyFilterDone(op)

\* "Rotate" of the editor.
Rotating ==
  \/ rotatePage
  \/ \E op \in BagToSet(inflight) : rotatePageDone(op)

\* "Highlight" of the editor and the highlight screen.
Highlighting ==
  \/ prepareHighlighting
  \/ cancelHighlighting
  \/ draw
  \/ saveHighlights
  \/ \E op \in BagToSet(inflight) :
       \/ prepareHighlightingDone(op)
       \/ saveHighlightsDone(op)

\* The image operations of the editor.
Editing == Pagination \/ Filtering \/ Rotating \/ Highlighting

\* The details view: translation and export.
Details ==
  \/ closeDetails
  \/ \E shown \in BOOLEAN : setShowExportSheet(shown)
  \/ \E shown \in BOOLEAN : setShowTranslateDialog(shown)
  \/ \E lang \in LANGUAGES : setTargetLang(lang)
  \/ \E lang \in {"Auto"} \cup LANGUAGES : setSourceLang(lang)
  \/ triggerTranslation
  \/ \E type \in ExportTypes, imgFormat \in ImageFormats :
       handleExport(type, imgFormat)
  \/ \E op \in BagToSet(inflight) :
       \/ \E outcome \in TranslationOutcomes : triggerTranslationDone(op, outcome)
       \/ \E succeeded \in BOOLEAN : handleExportDone(op, succeeded)

\* Scanning, saving, browsing, deleting, analysing, translating, exporting:
\* every handler but the image operations of the editor.
NextLibrary == Dashboard \/ Capture \/ Analysis \/ Details

SpecLibrary == Init /\ [][NextLibrary]_vars

\* Scanning, editing, analysing and saving: every handler of the camera
\* view and of the editor.
NextEditor == Capture \/ Analysis \/ Editing

SpecEditor == Init /\ [][NextEditor]_vars

\* One page scanned and worked on in the editor, in a longer run: the
\* camera up to the shutter, then filters, rotation and highlights.
Scanning ==
  \/ openCamera
  \/ \E granted \in BOOLEAN : startCameraSettled(granted)
  \/ \E pageId \in PageIds, docId \in generateId :
       captureImage(pageId, docId)

InitRetouch ==
  /\ InitApp
  /\ budget = MaxOps + 3
  /\ render = NoRender
  /\ zip = NoZip
  /\ worker = NoWorker

NextRetouch == Scanning \/ Filtering \/ Rotating \/ Highlighting

SpecRetouch == InitRetouch /\ [][NextRetouch]_vars

\* Documents of one or more pages scanned, looked through in the editor,
\* filtered and left, in a longer run.
Batching ==
  \/ \E mode \in {"SINGLE", "BATCH"} : setScanMode(mode)
  \/ \E docId \in generateId : finishBatch(docId)
  \/ cancelEdit

InitPaging ==
  /\ InitApp
  /\ budget = MaxOps + 2
  /\ render = NoRender
  /\ zip = NoZip
  /\ worker = NoWorker

NextPaging == Scanning \/ Batching \/ Pagination \/ Filtering

SpecPaging == InitPaging /\ [][NextPaging]_vars

\* A page scanned, filtered, analysed and saved, then opened and translated,
\* in a longer run: the editor's filters together with the details view.
Filing ==
  \/ saveDocument
  \/ \E i \in 1..Len(documents) : openDocument(i)

InitTranslate ==
  /\ InitApp
  /\ budget = MaxOps + 1
  /\ render = NoRender
  /\ zip = NoZip
  /\ worker = NoWorker

NextTranslate == Scanning \/ Filtering \/ Analysis \/ Filing \/ Details

SpecTranslate == InitTranslate /\ [][NextTranslate]_vars

\* ------------------------------------------------------------------ claims
Range(seq) == {seq[i] : i \in 1..Len(seq)}

\* The documents the application holds: the collection and the current one.
HeldDocs == Range(documents) \cup (IF currentDoc = NullDoc THEN {} ELSE {currentDoc})

HeldPages == UNION {Range(d.pages) : d \in HeldDocs}

EntriesWithId(id) == {i \in 1..Len(documents) : documents[i].id = id}

\* C1: after saveDocument the collection holds exactly one entry with the
\* saved document's id, and that entry is the document just saved; so of
\* two saves with one id the second one's content is what the collection
\* holds.
C1_SaveKeepsOneEntryPerId ==
  lastOp.op = "saveDocument" =>
    /\ Cardinality(EntriesWithId(lastOp.doc.id)) = 1
    /\ \A i \in EntriesWithId(lastOp.doc.id) : documents[i] = lastOp.doc

\* A save whose id was in the collection already: the second save of an id.
C1_Witness ==
  /\ lastOp.op = "saveDocument"
  /\ lastOp.existing >= 1

\* Is the derived image of the page the render of its own inputs?
IsRendered(p) ==
  p.processedDataUrl = processImage(p.originalDataUrl, p.filter, p.rotation,
                                    p.highlightsLayer)

\* Is the page as captureImage built it, the raw frame standing for the
\* derived image?
IsAsCaptured(p) ==
  /\ p.processedDataUrl = p.originalDataUrl
  /\ p.filter = ORIGINAL
  /\ p.rotation = 0
  /\ p.highlightsLayer = NoLayer

\* C2 as stated: the derived image of every page the application holds is
\* the render of the page's raw image, filter, rotation and highlight layer,
\* from capture onward.
C2_DerivedIsRenderFromCapture == \A p \in HeldPages : IsRendered(p)

\* C2 as amended: every page the application holds is either as captured
\* (the raw frame is its derived image, filter ORIGINAL, rotation 0, no
\* highlight layer) or carries the render of its own raw image, filter,
\* rotation and highlight layer.
C2_DerivedIsCaptureOrRender ==
  \A p \in HeldPages : IsAsCaptured(p) \/ IsRendered(p)

\* A stored page that was filtered, and a current page that was rotated or
\* highlighted.
C2_Witness ==
  /\ \E d \in Range(documents) : \E p \in Range(d.pages) : p.filter # ORIGINAL
  /\ currentDoc # NullDoc
  /\ \E p \in Range(currentDoc.pages) :
       p.rotation # 0 \/ p.highlightsLayer # NoLayer

\* C3: right after executeDelete ran with the current document among its
\* targets, the view is the dashboard, there is no current document, and
\* neither the collection nor the selection nor the target list holds a
\* deleted id.
C3_DeleteOfCurrentLeavesNoReference ==
  (lastOp.op = "executeDelete" /\ lastOp.current) =>
    /\ view = DASHBOARD
    /\ currentDoc = NullDoc
    /\ \A id \in lastOp.targets :
         /\ id \notin DocIds(documents)
         /\ id \notin selectedIds
         /\ id \notin Range(deleteTargetIds)

\* executeDelete has just removed the current document.
C3_Witness ==
  /\ lastOp.op = "executeDelete"
  /\ lastOp.current
  /\ lastOp.removed >= 1

\* The operations the processing flag stands for.
GatedKinds == {"applyFilter", "rotatePage", "triggerAIAnalysis",
               "triggerTranslation", "handleExport"}

GatedInFlight ==
  BagCardinality([op \in {o \in BagToSet(inflight) : o.kind \in GatedKinds}
                    |-> CopiesIn(op, inflight)])

\* C4: at most one of applyFilter, rotatePage, triggerAIAnalysis,
\* triggerTranslation and handleExport is in flight at any time.
C4_OneOperationInFlight == GatedInFlight <= 1

\* What AI analysis writes, of the current document.
AnalysisFields(doc) ==
  IF doc = NullDoc THEN NullDoc
  ELSE [title |-> doc.title, category |-> doc.category,
        aiSummary |-> doc.aiSummary]

\* The step in which an AI analysis ends in failure: no API key, the call
\* or the parse of the answer threw, or the answer was absent.
AnalysisFails ==
  \/ lastOp'.op = "triggerAIAnalysis" /\ lastOp'.outcome = "keyMissing"
  \/ lastOp'.op = "triggerAIAnalysisDone" /\ lastOp'.outcome \in {"error", "empty"}

\* C5: an AI analysis that fails leaves the current document's title,
\* category and aiSummary, and the collection, as they were.
C5_FailedAnalysisChangesNothing ==
  [][AnalysisFails =>
       /\ AnalysisFields(currentDoc') = AnalysisFields(currentDoc)
       /\ documents' = documents]_vars

\* The translation of the current document, if there is one.
TranslationOf(doc) == IF doc = NullDoc THEN NoTranslation ELSE doc.translation

\* The step in which a translation ends in failure: no API key, or the call
\* threw.
TranslationFails ==
  \/ lastOp'.op = "triggerTranslation" /\ lastOp'.outcome = "keyMissing"
  \/ lastOp'.op = "triggerTranslationDone" /\ lastOp'.outcome = "error"

\* C6: a translation that fails leaves the current document's translation
\* and the collection, in memory and stored, as they were, and the
\* translate dialog open.
C6_FailedTranslationChangesNothing ==
  [][TranslationFails =>
       /\ TranslationOf(currentDoc') = TranslationOf(currentDoc)
       /\ documents' = documents
       /\ stored' = stored
       /\ showTranslateDialog']_vars

\* The entries of the collection after a step that were not in it before.
WrittenEntries == Range(documents') \ Range(documents)

\* C7 as stated: saveDocument is the only operation that puts a document,
\* new or changed, into the collection.
C7_OnlySaveWrites ==
  [][WrittenEntries # {} => lastOp'.op = "saveDocument"]_vars

\* C7 as amended: only saveDocument brings a new id into the collection;
\* an entry, new or changed, is written only by saveDocument and by the
\* completion of triggerTranslation, whose entry takes the place of the one
\* with its id; the document capture or finishBatch has just created is not
\* in the collection.
C7_OnlySaveAndTranslationWrite ==
  [][/\ DocIds(documents') \ DocIds(documents) # {} =>
          lastOp'.op = "saveDocument"
     /\ WrittenEntries # {} =>
          lastOp'.op \in {"saveDocument", "triggerTranslationDone"}
     /\ (lastOp'.op = "triggerTranslationDone" /\ WrittenEntries # {}) =>
          /\ WrittenEntries = {currentDoc'}
          /\ Len(documents') = Len(documents)
          /\ \A i \in 1..Len(documents) :
               documents[i].id # currentDoc'.id => documents'[i] = documents[i]
     /\ (lastOp'.op \in {"captureImage", "finishBatch"} /\ view' = EDITOR) =>
          currentDoc' \notin Range(documents')]_vars

\* A translation has just been written into the collection.
C7_Witness ==
  /\ lastOp.op = "triggerTranslationDone"
  /\ currentDoc \in Range(documents)
  /\ currentDoc.translation # NoTranslation

\* C8: the value stored under 'open_scan_docs' is the serialization of the
\* whole collection in memory, and parsing it gives that collection back.
C8_StoredIsWholeCollection ==
  /\ stored = JSONstringify(documents)
  /\ JSONparse(stored) = documents

\* A translation has just been written into a stored document and the
\* non-empty collection has been serialized again.
C8_Witness ==
  /\ lastOp.op = "triggerTranslationDone"
  /\ \E d \in Range(documents) : d.translation # NoTranslation
  /\ Len(stored) >= 1

\* C9: no two entries of the collection have the same id.
C9_IdsUnique ==
  \A i, j \in 1..Len(documents) :
     documents[i].id = documents[j].id => i = j

\* A document whose id generateId had given out before has been saved into
\* a collection of two.
C9_Witness ==
  /\ lastOp.op = "saveDocument"
  /\ lastOp.existing >= 1
  /\ Len(documents) = 2

\* The positions of the collection executeDelete keeps.
Kept == {i \in 1..Len(documents) : documents[i].id \notin Range(deleteTargetIds)}

Channels(px) == {px.r, px.g, px.b}

\* The binarize pass of a call with the BW filter has run.
Binarized == /\ render.pc \in {"put", "hlPending", "resolved"}
             /\ render.filter = BW

\* C11 as stated: after the BW filter the three channels are 255 when the
\* average (R+G+B)/3 of the input pixel is greater than 128 and 0
\* otherwise.
C11_BinarizeThresholdsAverage ==
  Binarized =>
    Channels(render.data) =
      {IF render.pixel.r + render.pixel.g + render.pixel.b > 3 * 128
       THEN 255 ELSE 0}

\* C11 amended: after the BW filter the three channels are 255 when the
\* stored gray value, the average (R+G+B)/3 rounded to the nearest integer,
\* is greater than 128, that is when R+G+B is at least 386, and 0 otherwise;
\* the colour channels hold no value but 0 and 255.
C11_BinarizeThresholdsStoredGray ==
  Binarized =>
    /\ Channels(render.data) \subseteq {0, 255}
    /\ Channels(render.data) =
         {IF render.pixel.r + render.pixel.g + render.pixel.b >= 3 * 128 + 2
          THEN 255 ELSE 0}
    /\ render.data.a = render.pixel.a

\* The BW filter has run on a pixel whose average lies between 128 and 129.
C11_Witness ==
  /\ Binarized
  /\ render.pixel.r + render.pixel.g + render.pixel.b = 3 * 128 + 1
  /\ Channels(render.data) = {0}

\* The pixel a call without highlight layer hands to toDataURL.
FilteredBase(px, filter) ==
  CASE filter = ORIGINAL      -> px
    [] filter = GRAYSCALE     -> Grayscale(px)
    [] filter = MAGIC_ENHANCE -> MagicEnhance(Grayscale(px))
    [] filter = BW            -> Binarize(Grayscale(px))

\* C14: when the highlight layer does not decode, processImage can still
\* complete, and it then resolves with the rotated and filtered base image
\* and no overlay on it.
C14_BrokenLayerGivesBaseAlone ==
  render.pc # "idle" /\ render.highlightsLayer = "broken" =>
    /\ render.pc = "hlPending" => ENABLED hlOnerror
    /\ render.pc = "resolved" =>
         /\ ~render.overlay
         /\ render.data = FilteredBase(render.pixel, render.filter)

\* A call with a layer that does not decode has resolved.
C14_Witness ==
  /\ render.pc = "resolved"
  /\ render.highlightsLayer = "broken"
  /\ render.filter = MAGIC_ENHANCE

\* The archive of the call has been put together.
Archived == zip.pc \in {"generate", "done"}

FileNamed(name) == {f \in zip.files : f.name = name}

\* What the archive holds of a page: the image as it is when it is in the
\* format asked for, its conversion otherwise.
ImageIn(dataUrl, format) ==
  IF dataUrl.enc = "none" \/ format = "jpeg" THEN dataUrl
  ELSE [src |-> dataUrl, enc |-> format]

\* C16: the archive of a document of N pages holds exactly page_1.f ...
\* page_N.f and info.txt, page_i.f being the image of page i whatever the
\* order in which the conversions completed; info.txt has the summary
\* section only with a summary and the translation section only with a
\* translation.
C16_ArchiveHoldsPagesInOrder ==
  Archived =>
    /\ {f.name : f \in zip.files} =
         {PageFileName(i, zip.format) : i \in 0..(Len(zip.pages) - 1)}
         \cup {[name |-> "info.txt"]}
    /\ Cardinality(zip.files) = Len(zip.pages) + 1
    /\ \A i \in 0..(Len(zip.pages) - 1) :
         \A f \in FileNamed(PageFileName(i, zip.format)) :
           f.content = ImageIn(zip.pages[i + 1], zip.format)
    /\ \A f \in FileNamed([name |-> "info.txt"]) :
         /\ (\E k \in 2..Len(f.content) : f.content[k].section = "AI Summary")
              <=> zip.aiSummary # ""
         /\ (\E k \in 2..Len(f.content) : f.content[k].section = "Translation")
              <=> zip.translation # NoTranslation

\* An archive of three converted pages, with a summary and no translation.
C16_Witness ==
  /\ zip.pc = "done"
  /\ Len(zip.pages) = 3
  /\ zip.format = "png"
  /\ zip.aiSummary # ""
  /\ zip.translation = NoTranslation

\* What an export has no business with: all the state of the component but
\* the export sheet flag and the processing flag.
ExportFrame ==
  << view, documents, stored, currentDoc, editorPageIndex, isHighlighting,
     cleanImageForHighlighting, canvas, showTranslateDialog, targetLang,
     sourceLang, scanMode, batchPages, isSelectionMode, selectedIds,
     showDeleteConfirm, deleteTargetIds, cameraActive, videoReady >>

\* C15: handleExport, from its start to its success or failure, leaves the
\* current document, the collection and everything else but the export
\* sheet flag and the processing flag as they are.
C15_ExportChangesOnlyFlags ==
  [][lastOp'.op \in {"handleExport", "handleExportDone"} =>
       UNCHANGED ExportFrame]_vars

\* An export of a stored document has failed; the sheet is still open.
C15_Witness ==
  /\ lastOp.op = "handleExportDone"
  /\ ~lastOp.succeeded
  /\ showExportSheet
  /\ currentDoc \in Range(documents)

\* C17: saveDocument replaces the entry that has the current document's id
\* where it is, the length and the other entries staying as they are, or,
\* when there is none, puts the document in front of the entries; then the
\* view is DASHBOARD, currentDoc null and batchPages empty.
C17_SaveReplacesInPlaceOrPrepends ==
  [][lastOp'.op = "saveDocument" =>
       /\ IF currentDoc.id \in DocIds(documents)
          THEN /\ Len(documents') = Len(documents)
               /\ \A i \in 1..Len(documents) :
                    documents'[i] = IF documents[i].id = currentDoc.id
                                    THEN currentDoc ELSE documents[i]
          ELSE documents' = << currentDoc >> \o documents
       /\ view' = DASHBOARD
       /\ currentDoc' = NullDoc
       /\ batchPages' = << >>]_vars

\* A save has replaced the second of two entries.
C17_Witness ==
  /\ lastOp.op = "saveDocument"
  /\ lastOp.existing = 2

\* Can the handler that waits in `op` go on?
CanComplete(op) ==
  CASE op.kind = "applyFilter"        -> ENABLED applyFilterDone(op)
    [] op.kind = "rotatePage"         -> ENABLED rotatePageDone(op)
    [] op.kind = "triggerAIAnalysis"  ->
         ENABLED triggerAIAnalysisDone(op, "error")
    [] op.kind = "triggerTranslation" ->
         ENABLED triggerTranslationDone(op, "error")
    [] op.kind = "handleExport"       -> ENABLED handleExportDone(op, FALSE)
    [] OTHER                          -> TRUE

\* C18: every applyFilter, rotatePage, triggerAIAnalysis, triggerTranslation
\* and handleExport that has started can finish, and while isProcessing is
\* set one of them is there to clear it.  (What an operation waits for
\* never changes, so one that cannot finish now never finishes.)
C18_StartedOperationsFinish ==
  /\ \A op \in BagToSet(inflight) : CanComplete(op)
  /\ isProcessing => GatedInFlight >= 1

\* C19: while the editor shows a document, editorPageIndex is the index of
\* one of its pages.
C19_EditorIndexInRange ==
  view = EDITOR /\ currentDoc # NullDoc =>
    editorPageIndex \in 0..(Len(currentDoc.pages) - 1)

\* Is the data URL a frame of the camera as captureImage stored it?
IsCapture(dataUrl) == \E n \in 0..(MaxOps + 4) : dataUrl = FrameDataUrl(n)

\* The pages the application holds or works on: those of the documents it
\* holds, of the batch, and of the documents the pending handlers started on.
KnownPages ==
  HeldPages \cup Range(batchPages)
  \cup UNION {Range(op.doc.pages) :
                op \in {o \in BagToSet(inflight) : "doc" \in DOMAIN o}}

\* The page as captureImage would have made it from the same frame, with
\* the rotation and the highlight layer of `p`.
FreshlyCaptured(p) ==
  [NewPage(p.id, p.originalDataUrl) EXCEPT
     !.rotation = p.rotation, !.highlightsLayer = p.highlightsLayer]

\* C12: what applyFilter, rotatePage, prepareHighlighting and saveHighlights
\* render is the captured frame of the page, never an image rendered
\* before; and the page applyFilter(ORIGINAL) leaves, whatever filters came
\* before, shows what applyFilter(ORIGINAL) shows of the freshly captured
\* page with that rotation and highlight layer.
C12_RendersStartFromCapture ==
  /\ \A p \in KnownPages :
       /\ IsCapture(p.originalDataUrl)
       /\ ~IsAsCaptured(p) => p.processedDataUrl.src = p.originalDataUrl
  /\ cleanImageForHighlighting # FrameDataUrl(0) =>
       IsCapture(cleanImageForHighlighting.src)
  /\ (lastOp.op = "applyFilterDone" /\ lastOp.filter = ORIGINAL) =>
       LET p == PageAt(currentDoc, lastOp.index)
       IN  p.processedDataUrl =
             FilteredPage(FreshlyCaptured(p), ORIGINAL).processedDataUrl

\* ORIGINAL has been applied to a page that was filtered BW, rotated and
\* highlighted before.
C12_Witness ==
  /\ lastOp.op = "applyFilterDone"
  /\ lastOp.filter = ORIGINAL
  /\ lastOp.before.filter = BW
  /\ lastOp.before.rotation = 90
  /\ lastOp.before.highlightsLayer # NoLayer

\* C13: an applyFilter started on a page after a highlight layer was
\* saved on it, completing while the page has a highlight layer, leaves
\* that layer and the captured frame of the page as they are, and the page
\* then shows the frame under the new filter with that same layer over it.
C13_FilterKeepsHighlightLayer ==
  [][(/\ lastOp'.op = "applyFilterDone"
      /\ lastOp'.before.highlightsLayer # NoLayer
      /\ currentDoc # NullDoc
      /\ HasPage(currentDoc, lastOp'.index)
      /\ PageAt(currentDoc, lastOp'.index).highlightsLayer # NoLayer) =>
       LET old == PageAt(currentDoc, lastOp'.index)
           new == PageAt(currentDoc', lastOp'.index)
       IN  /\ new.highlightsLayer = old.highlightsLayer
           /\ new.originalDataUrl = old.originalDataUrl
           /\ new.processedDataUrl =
                processImage(old.originalDataUrl, lastOp'.filter,
                             new.rotation, old.highlightsLayer)]_vars

\* C20: the rotation of every page is 0, 90, 180 or 270.
C20_RotationIsQuarterTurns ==
  \A p \in KnownPages : p.rotation \in {0, 90, 180, 270}

\* A fourth quarter turn has brought a page back to rotation 0.
C20_Witness ==
  /\ lastOp.op = "rotatePageDone"
  /\ currentDoc # NullDoc
  /\ \E p \in Range(currentDoc.pages) :
       /\ p.rotation = 0
       /\ ~IsAsCaptured(p)
       /\ p.processedDataUrl.rotation = 0

\* Some stream obtained by startCamera still has live tracks.
StreamLive == videoReady \/ lostStreams

\* C21: whenever the view is not CAMERA, no stream obtained by startCamera
\* is live, whether it was acquired before or after the view was left.
C21_NoLiveStreamOutsideCamera == view # CAMERA => ~StreamLive

\* The pages are in the order their frames were taken (frame 0 is the empty
\* frame of a camera without a stream and tells nothing about the order).
InCaptureOrder(pages) ==
  \A i, j \in 1..Len(pages) :
    (i < j /\ pages[i].originalDataUrl.frame > 0
           /\ pages[j].originalDataUrl.frame > 0)
      => pages[i].originalDataUrl.frame < pages[j].originalDataUrl.frame

\* The page of the frame this step has captured.
IsNewCapture(p) ==
  /\ p.originalDataUrl.frame \in {0, captures'}
  /\ p.processedDataUrl = p.originalDataUrl
  /\ p.filter = ORIGINAL /\ p.rotation = 0 /\ p.highlightsLayer = NoLayer

\* C22: a capture in SINGLE mode opens one new one-page document in the
\* editor; a capture in BATCH mode appends its page to batchPages and
\* creates no document; finishBatch opens one document made of the batch
\* pages in capture order and empties the batch; with an empty batch
\* finishBatch does nothing.
C22_CaptureAndBatchMakeDocuments ==
  [][ /\ (lastOp'.op = "captureImage" /\ lastOp'.mode = "SINGLE") =>
           /\ currentDoc' # NullDoc
           /\ Len(currentDoc'.pages) = 1
           /\ IsNewCapture(currentDoc'.pages[1])
           /\ view' = EDITOR /\ editorPageIndex' = 0
           /\ batchPages' = batchPages /\ documents' = documents
      /\ (lastOp'.op = "captureImage" /\ lastOp'.mode = "BATCH") =>
           /\ Len(batchPages') = Len(batchPages) + 1
           /\ SubSeq(batchPages', 1, Len(batchPages)) = batchPages
           /\ IsNewCapture(batchPages'[Len(batchPages')])
           /\ InCaptureOrder(batchPages')
           /\ currentDoc' = currentDoc /\ documents' = documents
           /\ view' = view
      /\ lastOp'.op = "finishBatch" =>
           /\ batchPages # << >>
           /\ currentDoc' # NullDoc
           /\ currentDoc'.pages = batchPages
           /\ InCaptureOrder(currentDoc'.pages)
           /\ batchPages' = << >>
           /\ view' = EDITOR /\ editorPageIndex' = 0
           /\ documents' = documents
    ]_vars

\* finishBatch has just made a document of two pages of different frames.
C22_Witness ==
  /\ lastOp.op = "finishBatch"
  /\ Len(currentDoc.pages) = 2
  /\ currentDoc.pages[1].originalDataUrl.frame = 1
  /\ currentDoc.pages[2].originalDataUrl.frame = 2

\* The completions of applyFilter, rotatePage, triggerAIAnalysis and
\* triggerTranslation.
EditCompletions ==
  {"applyFilterDone", "rotatePageDone", "triggerAIAnalysisDone",
   "triggerTranslationDone"}

\* The step leaves the same document current (or none, if there was none).
SameCurrentDocument ==
  IF currentDoc = NullDoc THEN currentDoc' = NullDoc
  ELSE currentDoc' # NullDoc /\ currentDoc'.id = currentDoc.id

\* C23: the completion of an asynchronous operation never changes which
\* document is current; it does not bring back the document it was started
\* on after that document was saved, deleted, closed or replaced.
C23_CompletionKeepsCurrentDocument ==
  [][lastOp'.op \in EditCompletions => SameCurrentDocument]_vars

\* The completion works on the document that is current: the one it was
\* started on has not been closed or replaced in the meantime.
StillCurrent == currentDoc # NullDoc /\ currentDoc' # NullDoc
                /\ currentDoc'.id = currentDoc.id
                /\ Len(currentDoc'.pages) = Len(currentDoc.pages)

\* The step changes one page of the current document, as it is now, into
\* edited(page) and leaves the rest of the document alone.
EditsOnePage(edited(_)) ==
  \E i \in 1..Len(currentDoc.pages) :
    currentDoc' = [currentDoc EXCEPT !.pages[i] = edited(currentDoc.pages[i])]

\* C24: no completed page edit is lost.  A completion adds its own edit
\* (the filter, one quarter turn, the highlight layer, the analysis result)
\* to the current document as it is, so that the document reflects every
\* request that has completed, however the requests overlap.
C24_NoCompletedEditIsLost ==
  [][ StillCurrent =>
        /\ lastOp'.op = "applyFilterDone" =>
             LET Filtered(p) == FilteredPage(p, lastOp'.filter)
             IN  EditsOnePage(Filtered)
        /\ lastOp'.op = "rotatePageDone" => EditsOnePage(RotatedPage)
        /\ lastOp'.op = "saveHighlightsDone" =>
             \E layer \in 1..MaxLayer :
               LET Highlighted(p) == HighlightedPage(p, layer)
               IN  EditsOnePage(Highlighted)
        /\ lastOp'.op = "triggerAIAnalysisDone" =>
             currentDoc' = AnalysedDoc(currentDoc,
                                       analyzeDocument(lastOp'.outcome))
    ]_vars

\* The asynchronous operations of the editor and of the details view.
AsyncKinds == GatedKinds \cup {"prepareHighlighting", "saveHighlights"}

OperationInFlight == \E op \in BagToSet(inflight) : op.kind \in AsyncKinds

\* C25: isProcessing is true exactly in the states in which a filter, a
\* rotation, a highlight preparation, a highlight save, an analysis, a
\* translation or an export is in flight.
C25_ProcessingFlagTracksOperations == isProcessing <=> OperationInFlight

\* The clean background prepareHighlighting renders for a page.
CleanBackground(page) ==
  processImage(page.originalDataUrl, page.filter, page.rotation, NoLayer)

\* C26: a highlight session is bound to one page.  The page saveHighlights
\* stores the drawn layer on (its index, filter and rotation) is the page
\* prepareHighlighting rendered the clean background for.
C26_HighlightSessionOnOnePage ==
  [][(lastOp'.op = "saveHighlights" /\ HasPage(currentDoc, editorPageIndex))
       => cleanImageForHighlighting
            = CleanBackground(PageAt(currentDoc, editorPageIndex))]_vars

\* C27: every document, current or in the collection, that has a
\* translation has a non-empty aiSummary.
C27_TranslationImpliesSummary ==
  \A d \in HeldDocs : d.translation # NoTranslation => d.aiSummary # ""

\* A translated document is current and is in the collection.
C27_Witness ==
  /\ currentDoc # NullDoc /\ currentDoc.translation # NoTranslation
  /\ \E i \in 1..Len(documents) : documents[i].translation # NoTranslation

\* C28: every document that is current or in the collection has at least
\* one page, so pages[0] is defined wherever it is read.
C28_DocumentsHavePages == \A d \in HeldDocs : Len(d.pages) >= 1

\* A document is in the collection and an edited one is current.
C28_Witness ==
  /\ Len(documents) >= 1
  /\ currentDoc # NullDoc
  /\ \E i \in 1..Len(currentDoc.pages) : currentDoc.pages[i].filter # ORIGINAL

\* C29: whenever the view is DETAILS and no operation is in flight, the
\* current document equals the entry of the collection with its id, so
\* that what was changed from the details view is in the collection too.
C29_DetailsShowsStoredDocument ==
  (view = DETAILS /\ currentDoc # NullDoc /\ inflight = EmptyBag) =>
    /\ FindIndex(documents, currentDoc.id) >= 1
    /\ documents[FindIndex(documents, currentDoc.id)] = currentDoc

\* What the cache holds for the request in hand and for index.html, before
\* the step.
CachedForRequest == cachesMatch(worker.cache, worker'.request)
CachedIndexHtml  == worker.cache[IndexHtml]

\* A cached response is the answer whatever the fetch does, and the network
\* response is the answer only when nothing was cached.
CacheFirst ==
  /\ worker'.last = "fetchEvent" =>
       IF CachedForRequest # NoResponse
       THEN worker'.answer = CachedForRequest
       ELSE worker'.answer = Unanswered
  /\ (worker'.last \in {"fetchResolved", "fetchRejected"}
        /\ worker.answer # Unanswered) => worker'.answer = worker.answer
  /\ (worker'.last = "fetchResolved" /\ worker.answer = Unanswered) =>
       /\ worker'.answer = worker'.network
       /\ worker'.answer \in NetworkResponses(worker.handled)

\* The fetch handler writes to the cache nothing but a network response of
\* status 200 and type basic or cors.
WritesValidOnly ==
  (worker'.last \notin {"none", "install"} /\ worker'.cache # worker.cache) =>
    \E u \in Urls :
      /\ worker'.cache = [worker.cache EXCEPT ![u] = worker'.cache[u]]
      /\ worker'.cache[u] # NoResponse
      /\ worker'.cache[u].fetched >= 1
      /\ worker'.cache[u].status = 200
      /\ worker'.cache[u].type \in {"basic", "cors"}

\* A navigation whose fetch has failed with nothing cached for it.
FailedNavigation ==
  /\ worker'.last = "fetchRejected"
  /\ worker.answer = Unanswered
  /\ worker.request.mode = "navigate"

\* C30: the fetch handler answers with the cached response when there is
\* one, whatever the network does, and with the network response only when
\* nothing is cached; a navigation whose fetch fails is answered with the
\* cached index.html; only responses of status 200 and type basic or cors
\* are written to the cache.
C30_CacheFirstThenIndexHtml ==
  [][ /\ CacheFirst
      /\ WritesValidOnly
      /\ FailedNavigation =>
           /\ worker'.answer # NoResponse
           /\ worker'.answer = CachedIndexHtml
    ]_vars

\* C30, amended: as stated, except that a navigation whose fetch fails is
\* answered with index.html only if index.html is in the cache; if it is
\* not, the handler has no response to give.
C30_CacheFirstThenIndexHtmlIfCached ==
  [][ /\ CacheFirst
      /\ WritesValidOnly
      /\ FailedNavigation =>
           worker'.answer = IF CachedIndexHtml # NoResponse
                            THEN CachedIndexHtml ELSE NoResponse
    ]_vars

\* The second request, a navigation to a URL that is not in the cache, has
\* failed and has been answered with the pre-cached index.html.
C30_Witness ==
  /\ worker.last = "fetchRejected"
  /\ worker.handled = MaxRequests
  /\ worker.request = [url |-> "./scan", mode |-> "navigate", method |-> "GET"]
  /\ worker.cache["./scan"] = NoResponse
  /\ worker.answer = Precached
  /\ worker.answer = worker.cache[IndexHtml]

====
